---- MODULE Spec2Model ----
(***************************************************************************)
(* A model of the menu-driven interpreter of up_template (Interface.py)    *)
(* and of the parts of the report assembler (NetlOlcaReport.py) that the   *)
(* interpreter drives.  One step of the model is the handling of one line  *)
(* of input: everything the code does between two calls of input().        *)
(***************************************************************************)
EXTENDS Integers, Sequences, FiniteSets, TLC

(***************************************************************************)
(* Bounds of the model.                                                    *)
(***************************************************************************)
\* Largest number of JSON-LD files in the default data directory.
MaxFiles == 1
\* Largest number of workbooks in the calculations directory.
MaxBooks == 1
\* Largest number of product systems the data source lists.
MaxPS == 2
\* Largest number of actors the data source (or the YAML file) lists.
MaxActors == 1
\* the days the session may last
MaxDays == 2
\* Largest number of characters of a reference name.
MaxName == 4
\* Largest number of allocation factors of a process.
MaxFactors == 3
\* Largest number of parameters of a process.
MaxParams == 3

(***************************************************************************)
(* The option table: Interface.params.                                     *)
(***************************************************************************)
Codes ==
  { "1", "1a", "1b", "2", "2a", "2b", "3", "3a", "3b", "3c", "3d",
    "4", "4a", "4b", "4c", "5", "5a", "5b", "5c", "6", "7",
    "q", "h", "m", "o", "e", "e1", "e2", "p" }

\* params[code]['type']
ParamType(c) ==
  CASE c \in {"1a", "1b"} -> "connection_json"
    [] c \in {"2a", "2b"} -> "connection_olca"
    [] c \in {"3a", "3b", "3c", "3d"} -> "query"
    [] c \in {"4a", "4b", "4c"} -> "report"
    [] c \in {"5a", "5b", "5c"} -> "publish"
    [] c \in {"e1", "e2"} -> "edit"
    [] c \in {"e", "p"} -> "misc"
    [] OTHER -> "option"

\* params[code]['show'] after __init__
InitShow ==
  [c \in Codes |->
     IF c \in {"3", "4", "5", "6", "7", "q", "h", "m", "o"} THEN FALSE ELSE TRUE]

\* rd.process_types keys
ProcessTypes == {"EP", "MP", "BP", "IP", "EC", "TP", "RP", "WT", "AP"}

(***************************************************************************)
(* Input lines.  A line is a string; the string operations the code uses   *)
(* (lower, upper, strip, isspace, int) are tabulated on the lines of the   *)
(* model.                                                                  *)
(***************************************************************************)
MainLines ==
  Codes \cup { "Q", "E1", "exit", "QUIT", "help", "h(3)", "h(zz)", "H(3)",
               "help(3)", "", "xyz" }
DirLines == { "q", "QUIT", "exit", " ", "alt", "empty", "nodir" }
PortLines == { "q", "", "8080" }
TypeLines == { "Q", "exit", "", "ep", "ZZ" }
SelectLines == { "q", "QUIT", "exit", "", "0", "1", "2", "3", "abc" }
YesLines == { "y", "YES" }
AnsLines == YesLines \cup { "n", "", "q", "yes please" }
PandocLines == { "y", " Y ", "yes", "n", "q" }

\* str.lower()
Lower(s) ==
  CASE s = "Q" -> "q"
    [] s = "E1" -> "e1"
    [] s = "QUIT" -> "quit"
    [] s = "H(3)" -> "h(3)"
    [] s = " Y " -> " y "
    [] s = "Y" -> "y"
    [] s = "YES" -> "yes"
    [] s = "ZZ" -> "zz"
    [] s = ".MD" -> ".md"
    [] s = ".Txt" -> ".txt"
    [] s = "PDF" -> "pdf"
    [] OTHER -> s

\* str.upper()
Upper(s) ==
  CASE s = "q" -> "Q"
    [] s = "ep" -> "EP"
    [] s = "exit" -> "EXIT"
    [] OTHER -> s

\* str.strip()
Strip(s) ==
  CASE s = " Y " -> "Y"
    [] s = " " -> ""
    [] OTHER -> s

\* str.isspace()
IsSpace(s) == s \in {" "}

\* str.startswith('h') / str.startswith('help') of the lower-cased line
StartsWithH(s) == s \in {"h", "help", "h(3)", "h(zz)", "help(3)"}
StartsWithHelp(s) == s \in {"help", "help(3)"}

\* h_pattern.match(h_str): the option named in h(<opt>) or help(<opt>),
\* "" when the (case-sensitive) pattern does not match
HelpMatch(s) ==
  CASE s = "h(3)" -> "3"
    [] s = "help(3)" -> "3"
    [] s = "h(zz)" -> "zz"
    [] OTHER -> ""

\* int(ans): the lines int() accepts, and their values
IntLines == {"0", "1", "2", "3", "4", "5", "6", "7", "9"}
IntOf(s) ==
  CASE s = "0" -> 0 [] s = "1" -> 1 [] s = "2" -> 2 [] s = "3" -> 3
    [] s = "4" -> 4 [] s = "5" -> 5 [] s = "6" -> 6 [] s = "7" -> 7
    [] s = "9" -> 9 [] OTHER -> -1

(***************************************************************************)
(* The file system: the directories a user can name.  "data" is DATA_DIR   *)
(* and "calculations" is CALC_DIR; -1 files stands for a missing folder.   *)
(***************************************************************************)
DATA_DIR == "data"
CALC_DIR == "calculations"

VARIABLES
  dataFiles,        \* number of JSON-LD files in DATA_DIR, -1: no such folder
  calcFiles,        \* number of workbooks in CALC_DIR, -1: no such folder
  pc,               \* where the interpreter waits
  stack,            \* the nested request loops, innermost last
  pending,          \* the answer waiting for its confirmation
  bound,            \* the number of candidates listed by the current prompt
  is_okay, is_running, hidden_state,
  show,             \* params[code]['show']
  work_dir, work_file, calc_file, json_set, calc_set,
  product_sys_uid,
  process_code,     \* rd.process_code
  port,             \* netl.port
  rd_name,          \* rd.reference_name: -1 is None, 0 the name of the
                    \* source's reference process, i the name of product
                    \* system i
  rd_fetched,       \* rd.data_fetched
  rd_fields,        \* rd.input_flows, output_flows, process_doc, param_table:
                    \* -1 is None, u the formatted data of scope u (0 the
                    \* reference process, i product system i)
  rd_md,            \* rd.md: << >> is None, else << the text >>
  rd_calc,          \* rd.calculations_content: << >> is None, else the
                    \* workbook it was read from
  md_files,         \* the reference names whose markdown file is on disk
  md_text,          \* the text of each markdown file, << >> where none
  today,            \* datetime.datetime.now().date(), as a day number
  rendered_from,    \* history: << the report fields >> as they were when
                    \* rd.md was rendered, << >> when rd.md is not a rendering
  num_ps,           \* number of product systems of the data that was read
  connected,        \* history: a source was opened or queried and read
  last_prompt,      \* history: the prompt the last line was read at
  last_ans,         \* history: the last line read
  invoked,          \* history: the option whose action the last line invoked
  out,              \* history: what the last step printed
  listed,           \* history: the option codes the menu displayed by the
                    \* last step listed, in the order they were printed
  arg,              \* the arguments of the method that is called on its
                    \* own, << >> when none is
  result,           \* << >>, or << the value that method returned >>
  pandoc_args,      \* history: << >>, or << the input and the output path >>
                    \* of the subprocess the last step ran
  exc               \* the exception that left run(), "" if none

vars ==
  << dataFiles, calcFiles, pc, stack, pending, bound, is_okay, is_running,
     hidden_state, show, work_dir, work_file, calc_file, json_set, calc_set,
     product_sys_uid, process_code, port, rd_name, rd_fetched, rd_md,
     rd_calc, md_files, num_ps, connected, last_prompt, last_ans, invoked,
     out, exc, rd_fields, md_text, today, rendered_from, pandoc_args,
     listed, arg, result >>

\* os.path.isdir and the number of JSON-LD files glob finds
DirCount(d, nData) ==
  CASE d = "data" -> nData
    [] d = "alt" -> 1
    [] d = "empty" -> 0
    [] OTHER -> -1

IsDir(d, nData) == DirCount(d, nData) >= 0

\* find_json_files(my_dir): the sorted list of paths
find_json_files(d, nData) ==
  IF DirCount(d, nData) <= 0 THEN << >>
  ELSE [i \in 1..DirCount(d, nData) |-> << d, i >>]

\* find_excel_files(my_dir)
find_excel_files(d, nCalc) ==
  IF d = CALC_DIR /\ nCalc > 0 THEN [i \in 1..nCalc |-> << d, i >>] ELSE << >>

\* dir_has_json(my_dir)
dir_has_json(d, nData) == Len(find_json_files(d, nData)) > 0


(***************************************************************************)
(* The interpreter's state as one record, so that the statements of a      *)
(* handler can be composed as the code composes them.  ret holds the value *)
(* the last called method returned.                                        *)
(***************************************************************************)
Cur ==
  [ pc |-> pc, stack |-> stack, pending |-> pending, bound |-> bound,
    is_okay |-> is_okay, is_running |-> is_running,
    hidden_state |-> hidden_state, show |-> show, work_dir |-> work_dir,
    work_file |-> work_file, calc_file |-> calc_file, json_set |-> json_set,
    calc_set |-> calc_set, product_sys_uid |-> product_sys_uid,
    process_code |-> process_code, port |-> port, rd_name |-> rd_name,
    rd_fetched |-> rd_fetched, rd_md |-> rd_md, rd_calc |-> rd_calc,
    md_files |-> md_files, rd_fields |-> rd_fields, md_text |-> md_text,
    today |-> today, rendered_from |-> rendered_from,
    num_ps |-> num_ps, connected |-> connected,
    last_prompt |-> last_prompt, last_ans |-> last_ans, invoked |-> invoked,
    out |-> out, exc |-> exc, pandoc_args |-> pandoc_args,
    listed |-> listed, arg |-> arg, result |-> result, ret |-> FALSE ]

Commit(S) ==
  /\ pc' = S.pc /\ stack' = S.stack /\ pending' = S.pending
  /\ bound' = S.bound /\ is_okay' = S.is_okay /\ is_running' = S.is_running
  /\ hidden_state' = S.hidden_state /\ show' = S.show
  /\ work_dir' = S.work_dir /\ work_file' = S.work_file
  /\ calc_file' = S.calc_file /\ json_set' = S.json_set
  /\ calc_set' = S.calc_set /\ product_sys_uid' = S.product_sys_uid
  /\ process_code' = S.process_code /\ port' = S.port
  /\ rd_name' = S.rd_name /\ rd_fetched' = S.rd_fetched /\ rd_md' = S.rd_md
  /\ rd_calc' = S.rd_calc /\ md_files' = S.md_files /\ num_ps' = S.num_ps
  /\ connected' = S.connected
  /\ rd_fields' = S.rd_fields /\ md_text' = S.md_text /\ today' = S.today
  /\ rendered_from' = S.rendered_from
  /\ last_prompt' = S.last_prompt /\ last_ans' = S.last_ans
  /\ invoked' = S.invoked /\ out' = S.out /\ exc' = S.exc
  /\ pandoc_args' = S.pandoc_args /\ listed' = S.listed
  /\ arg' = S.arg /\ result' = S.result
  /\ UNCHANGED << dataFiles, calcFiles >>

\* The state in which the line ans, read at prompt p, starts to be handled.
\* pc = "running" while straight-line code runs.
Begin(p, ans) ==
  [Cur EXCEPT !.pc = "running", !.last_prompt = p, !.last_ans = ans,
              !.invoked = "none", !.out = << >>, !.pending = "",
              !.pandoc_args = << >>, !.listed = << >>]

\* print(...)
Say(S, kind, what) == [S EXCEPT !.out = Append(@, << kind, what >>)]

\* Interface.warn: print("!!! %s !!!" % msg)
warn(S, msg) == Say(S, "warn", msg)

\* Interface.success
success(S) == Say(S, "print", "Success!")

\* An exception no handler catches: it leaves do_next and run.  e names the
\* exception: its Python type, or for the generic failure of the data source
\* the call that failed ("connect failed", "query failed").
Raise(S, e) == [S EXCEPT !.pc = "crashed", !.exc = e, !.stack = << >>]

\* Interface.quit
quit(S) ==
  Say([S EXCEPT !.is_running = FALSE, !.hidden_state = -1], "print", "Exiting...")

\* sorted(list(self.params.keys()))
SortedCodes ==
  << "1", "1a", "1b", "2", "2a", "2b", "3", "3a", "3b", "3c", "3d",
     "4", "4a", "4b", "4c", "5", "5a", "5b", "5c", "6", "7",
     "e", "e1", "e2", "h", "m", "o", "p", "q" >>

\* the loop of every menu: the codes of one type that are shown, in the
\* order of the sorted keys
VisibleOf(S, type) ==
  SelectSeq(SortedCodes, LAMBDA c : ParamType(c) = type /\ S.show[c])

\* the option lines a menu prints: the main menu and the review menu end
\* with 'q' alone, the publishing menu opened without pandoc lists no
\* publish option, every other menu lists its type and then 'm' and 'q'
MenuList(S, m) ==
  CASE m = "main" -> VisibleOf(S, "option") \o << "q" >>
    [] m = "query" -> VisibleOf(S, "query") \o << "q" >>
    [] m = "publish_empty" -> << "m", "q" >>
    [] OTHER -> VisibleOf(S, m) \o << "m", "q" >>

\* Interface.show_options and the sub-menus: the menu that is displayed
ShowMenu(S, m) == [Say(S, "menu", m) EXCEPT !.listed = MenuList(S, m)]
show_options(S) == ShowMenu(S, "main")

\* a value passed for the visibility: << its Python type, the value >>
PyBool(b) == << "bool", b >>

\* Interface.make_param_visible without the test of the option code
make_param_visibleAnyCode(S, p, v) ==
  IF v[1] # "bool" THEN Raise(S, "TypeError")
  ELSE [S EXCEPT !.show = [c \in DOMAIN S.show \cup {p} |->
                             IF c = p THEN v[2] ELSE S.show[c]]]

\* Interface.make_param_visible
make_param_visible(S, p, v) ==
  IF p \notin DOMAIN S.show THEN Raise(S, "ValueError")
  ELSE IF v[1] # "bool" THEN Raise(S, "TypeError")
  ELSE [S EXCEPT !.show[p] = v[2]]

\* a sequence of make_param_visible calls; a raise ends the sequence
RECURSIVE MakeVisibleAll(_, _)
MakeVisibleAll(S, ts) ==
  IF ts = << >> \/ S.pc # "running" THEN S
  ELSE MakeVisibleAll(make_param_visible(S, Head(ts)[1], PyBool(Head(ts)[2])),
                      Tail(ts))

\* assign_project_file with a misspelled option code in its fourth call
ProjectFileTogglesMisspelled ==
  << << "1", FALSE >>, << "2", FALSE >>, << "3", TRUE >>, << "r4", TRUE >>,
     << "5", TRUE >>, << "6", TRUE >>, << "7", TRUE >>, << "o", TRUE >> >>

\* the calls of assign_project_file after its request loop
ProjectFileToggles ==
  << << "1", FALSE >>, << "2", FALSE >>, << "3", TRUE >>, << "4", TRUE >>,
     << "5", TRUE >>, << "6", TRUE >>, << "7", TRUE >>, << "o", TRUE >> >>

\* the calls of open_server when one more call shows '1' again
ServerTogglesBack ==
  << << "1", FALSE >>, << "2", FALSE >>, << "3", TRUE >>, << "4", TRUE >>,
     << "5", TRUE >>, << "6", TRUE >>, << "7", TRUE >>, << "o", TRUE >>,
     << "1", TRUE >> >>

\* the calls of open_server after assign_product_system
ServerToggles ==
  << << "1", FALSE >>, << "2", FALSE >>, << "3", TRUE >>, << "4", TRUE >>,
     << "5", TRUE >>, << "6", TRUE >>, << "7", TRUE >>, << "o", TRUE >> >>

\* Interface.load_json_set
load_json_set(S, my_dir, nData) ==
  LET S1 == IF IsDir(my_dir, nData)
            THEN [S EXCEPT !.json_set = find_json_files(my_dir, nData)]
            ELSE S
  IN IF Len(S1.json_set) > 0
     THEN [S1 EXCEPT !.is_okay = TRUE]
     ELSE warn([S1 EXCEPT !.is_okay = FALSE], "No JSON-LD files")

\* Interface.load_excel_set
load_excel_set(S, my_dir, nCalc) ==
  LET S1 == IF my_dir = CALC_DIR /\ nCalc >= 0
            THEN [S EXCEPT !.calc_set = find_excel_files(my_dir, nCalc)]
            ELSE S
  IN IF Len(S1.json_set) > 0
     THEN [S1 EXCEPT !.is_okay = TRUE]
     ELSE warn([S1 EXCEPT !.is_okay = FALSE], "No Excel files found")

\* Interface.set_working_dir
set_working_dir(S, val, nData) ==
  IF IsDir(val, nData) /\ dir_has_json(val, nData)
  THEN LET S1 == load_json_set(S, val, nData)
       IN Say([S1 EXCEPT !.work_dir = val, !.ret = TRUE], "print", "Read files")
  ELSE [S EXCEPT !.ret = FALSE]

\* Interface.set_calc_file
set_calc_file(S, val) ==
  IF val \in {S.calc_set[i] : i \in 1..Len(S.calc_set)}
  THEN [S EXCEPT !.calc_file = val, !.ret = TRUE]
  ELSE [S EXCEPT !.ret = FALSE]

\* Interface.set_process_type without the test of the code
set_process_typeUnchecked(S, val) ==
  [S EXCEPT !.process_code = Upper(val), !.ret = TRUE]

\* Interface.set_process_type
set_process_type(S, val) ==
  IF Upper(val) \in ProcessTypes
  THEN [S EXCEPT !.process_code = Upper(val), !.ret = TRUE]
  ELSE [S EXCEPT !.ret = FALSE]

\* Interface.set_server_port: the port setter of the data source accepts the
\* value (ok) or raises ValueError or TypeError
set_server_port(S, val, ok) ==
  IF ok THEN [S EXCEPT !.port = val, !.ret = TRUE] ELSE [S EXCEPT !.ret = FALSE]

\* the identifiers get_spec_ids returns when set_product_system asks for
\* them: those of the product systems, unless the source no longer
\* lists what it listed before (o.idOk false)
IdList(S, o) == IF o.idOk THEN 1..S.num_ps ELSE {}

\* Interface.set_product_system; id_list: what get_spec_ids returns, q:
\* get_spec_ids answers, nameOk: get_reference_name answers
set_product_system(S, val, id_list, q, nameOk) ==
  IF ~q THEN Raise(S, "query failed")
  ELSE IF val \in id_list
  THEN LET S1 == [S EXCEPT !.product_sys_uid = val]
       IN IF ~nameOk THEN Raise(S1, "query failed")
          ELSE Say([S1 EXCEPT !.rd_name = val, !.ret = TRUE],
                   "print", "Product system set")
  ELSE [S EXCEPT !.ret = FALSE]

\* Interface.open_file: netl.open then netl.read; n is the number of product
\* systems the file holds
open_file(S, val, openOk, readOk, n) ==
  IF ~openOk THEN [S EXCEPT !.ret = FALSE]
  ELSE IF ~readOk THEN [S EXCEPT !.ret = FALSE]
  ELSE [S EXCEPT !.num_ps = n, !.connected = TRUE, !.ret = TRUE]

\* Interface.set_project_file: a failed open or read is swallowed
set_project_file(S, val, openOk, readOk, n) ==
  LET S1 == open_file(S, val, openOk, readOk, n)
  IN IF S1.ret THEN [S1 EXCEPT !.work_file = val] ELSE S1

\* Interface.check_val
check_val(S, val) ==
  IF Lower(val) = "q" \/ Lower(val) = "quit"
  THEN [quit(S) EXCEPT !.ret = TRUE]
  ELSE IF IsSpace(val) \/ val = ""
  THEN [S EXCEPT !.ret = TRUE]
  ELSE [S EXCEPT !.ret = FALSE]

\* Interface.check_ans: the classification of the confirmation line
check_ans(ans) == Lower(ans) = "y" \/ Lower(ans) = "yes"

\* run(), the test of its while loop: back to the command prompt or out
ToMain(S) ==
  IF S.pc # "running" THEN S
  ELSE IF S.is_okay /\ S.is_running
  THEN [S EXCEPT !.pc = "main", !.stack = << >>]
  ELSE [S EXCEPT !.pc = "done", !.stack = << >>]


(***************************************************************************)
(* The request loops.  Each prompt_* method runs some code, reads a line,  *)
(* and handles it; the part before input() is the Prompt* operator, the    *)
(* part after it is the action of that prompt.  An oracle tells how the    *)
(* calls of the data source made in this step turn out:                    *)
(*   q       the queries answer (they raise otherwise)                     *)
(*   nameOk  get_reference_name answers                                    *)
(*   n       the number of actors a listing returns                        *)
(***************************************************************************)
\* The oracle under which every collaborator call of a step succeeds; the
\* further fields: connectOk, readOk (netl.connect, netl.read), nps (the
\* number of product systems read), pandoc (pandoc_installed), fileOk (the
\* markdown file can be read or written), convertOk (pandoc converts),
\* calcOk (the workbook can be read), addOk (netl.add returns True), portOk
\* (the port setter accepts the value), at (where fetch_data fails), hasIn,
\* hasOut, hasDoc (the source returns input flows, output flows, process
\* documentation for the scope that is fetched), idOk (get_spec_ids
\* returns in set_product_system what it returned before).
AllOk ==
  [ q |-> TRUE, nameOk |-> TRUE, n |-> 0, connectOk |-> TRUE, readOk |-> TRUE,
    nps |-> 0, pandoc |-> TRUE, fileOk |-> TRUE, convertOk |-> TRUE,
    calcOk |-> TRUE, addOk |-> TRUE, portOk |-> TRUE, at |-> "ok",
    hasIn |-> TRUE, hasOut |-> TRUE, hasDoc |-> TRUE, idOk |-> TRUE ]

Top(S) == S.stack[Len(S.stack)]
Parent(S) == IF Len(S.stack) >= 2 THEN S.stack[Len(S.stack) - 1] ELSE "main"
Pop(S) == [S EXCEPT !.stack = SubSeq(@, 1, Len(@) - 1)]
Push(S, loop) == [S EXCEPT !.stack = Append(@, loop)]
AtPrompt(S, n) == [S EXCEPT !.pc = "prompt", !.bound = n, !.pending = ""]

\* prompt_working_dir, prompt_server_port, prompt_process_type up to input()
PromptFreeText(S) == AtPrompt(S, 0)

\* prompt_project_file up to input()
PromptProjectFile(S, nData) ==
  LET S1 == load_json_set(S, S.work_dir, nData)
  IN AtPrompt(S1, Len(S1.json_set))

\* prompt_calculation_file up to input()
PromptCalculationFile(S, nCalc) ==
  LET S1 == load_excel_set(S, CALC_DIR, nCalc)
  IN AtPrompt(S1, Len(S1.calc_set))

\* prompt_new_actor up to input(): the YAML entities are read
PromptNewActor(S, o) ==
  IF ~o.q THEN Raise(S, "query failed") ELSE AtPrompt(S, o.n)

\* prompt_reviewer up to input(): with no actor the loop variable i of the
\* menu text is unbound
PromptReviewer(S, o) ==
  IF ~o.q THEN Raise(S, "query failed")
  ELSE IF o.n = 0 THEN Raise(S, "UnboundLocalError")
  ELSE AtPrompt(S, o.n)

\* assign_project_file after its loop
AfterProjectFile(S) ==
  LET S1 == MakeVisibleAll(S, ProjectFileToggles)
  IN IF S1.pc = "running" THEN show_options(S1) ELSE S1

\* open_server after assign_product_system
AfterServerProductSystem(S) ==
  LET S1 == MakeVisibleAll(S, ServerToggles)
  IN IF S1.pc = "running" THEN show_options(S1) ELSE S1

\* What follows a request loop whose prompt_* method returned True: the
\* rest of the caller.  The loop is the top of the stack.
Return(S, o, nData) ==
  LET loop == Top(S)
      par == Parent(S)
      S1 == [Pop(S) EXCEPT !.pc = "running"]
  IN CASE loop = "working_dir" /\ par = "startup" ->
            IF S1.is_running THEN show_options(Pop(S1)) ELSE Pop(S1)
       [] loop = "project_file" -> AfterProjectFile(S1)
       [] loop = "product_system" /\ par = "project_file" ->
            AfterProjectFile(Pop(S1))
       [] loop = "product_system" /\ par = "open_server" ->
            AfterServerProductSystem(Pop(S1))
       [] loop = "process_type" -> show_options(S1)
       [] loop = "calc_file" -> show_options(S1)
       [] loop = "new_actor" /\ par = "reviewer" -> PromptReviewer(S1, o)
       [] OTHER -> S1

\* prompt_product_system up to input(); a single product system is assigned
\* without a prompt
PromptProductSystem(S, o, nData) ==
  IF ~o.q THEN Raise(S, "query failed")
  ELSE IF S.num_ps = 1
  THEN LET S1 == set_product_system([S EXCEPT !.pc = "running"], 1, IdList(S, o), o.q, o.nameOk)
       IN IF S1.pc # "running" THEN S1
          ELSE IF S1.ret THEN Return(success(S1), o, nData)
          ELSE [warn(S1, "Product system failed to set") EXCEPT !.pc = "spinning"]
  ELSE AtPrompt(S, S.num_ps)

\* The next round of the loop on top of the stack: its prompt_* method is
\* called again.
Again(S, o, nData, nCalc) ==
  LET loop == Top(S)
  IN CASE loop = "project_file" -> PromptProjectFile(S, nData)
       [] loop = "calc_file" -> PromptCalculationFile(S, nCalc)
       [] loop = "product_system" -> PromptProductSystem(S, o, nData)
       [] loop = "new_actor" -> PromptNewActor(S, o)
       [] loop = "reviewer" -> PromptReviewer(S, o)
       [] OTHER -> PromptFreeText(S)

\* The end of a prompt_* method that returns is_done (S.ret).
EndPrompt(S, o, nData, nCalc) ==
  IF S.pc # "running" THEN S
  ELSE IF S.ret THEN Return(S, o, nData)
  ELSE Again(S, o, nData, nCalc)


(***************************************************************************)
(* The report assembler as far as the interpreter drives it.  The rendered *)
(* text is named by the reference name it was rendered for.                *)
(***************************************************************************)
\* the reference name the data source gives for a product system identifier;
\* the empty identifier stands for the source's reference process
NameOf(uid) == uid

\* NetlOlcaReport.fetch_data.  o.at tells which query raises: none ("ok"),
\* get_reference_name ("first"), get_input_flows ("flows") or
\* find_process_parameters ("later"); "unknown id" is get_reference_name
\* raising because the source has no product system with the identifier
\* it is given, which can only be so for the empty identifier: uuid is
\* handed to every query as it is, and the source takes None, not '',
\* for its reference process.  The flows and the documentation are
\* assigned only when the source returns some.  The exception is caught
\* inside and printed.  (First a fetch_data whose except clause leaves
\* data_fetched as it was.)
fetch_dataKeepsFlag(S, uid, o) ==
  LET S1 == IF o.at \notin {"first", "unknown id"}
            THEN [S EXCEPT !.rd_name = NameOf(uid)] ELSE S
      S2 == IF o.at \in {"ok", "later"}
            THEN [S1 EXCEPT !.rd_fields.input_flows = IF o.hasIn THEN uid ELSE @,
                            !.rd_fields.output_flows = IF o.hasOut THEN uid ELSE @,
                            !.rd_fields.process_doc = IF o.hasDoc THEN uid ELSE @]
            ELSE S1
      S3 == IF o.at = "ok" THEN [S2 EXCEPT !.rd_fields.param_table = uid] ELSE S2
  IN IF o.at = "ok"
     THEN Say([S3 EXCEPT !.rd_fetched = TRUE], "print", "Data fetched successfully.")
     ELSE Say(S3, "fetch error", o.at)
fetch_data(S, uid, o) ==
  LET S1 == IF o.at \notin {"first", "unknown id"}
            THEN [S EXCEPT !.rd_name = NameOf(uid)] ELSE S
      S2 == IF o.at \in {"ok", "later"}
            THEN [S1 EXCEPT !.rd_fields.input_flows = IF o.hasIn THEN uid ELSE @,
                            !.rd_fields.output_flows = IF o.hasOut THEN uid ELSE @,
                            !.rd_fields.process_doc = IF o.hasDoc THEN uid ELSE @]
            ELSE S1
      S3 == IF o.at = "ok" THEN [S2 EXCEPT !.rd_fields.param_table = uid] ELSE S2
  IN IF o.at = "ok"
     THEN Say([S3 EXCEPT !.rd_fetched = TRUE], "print", "Data fetched successfully.")
     ELSE Say([S3 EXCEPT !.rd_fetched = FALSE], "fetch error", o.at)

\* A line of text: << the slot of the template it fills, what it says, the
\* number of blanks at its end >>.  It says the data of scope u (u >= 0), the
\* day for the date, Fallback for the slot's placeholder, -1 for "None".
Fallback == -2
SlotNoFallback(name, v) == << name, v, 0 >>
Slot(name, v) == << name, IF v = -1 THEN Fallback ELSE v, 0 >>

\* the identity of the workbook text in rd.calculations_content
CalcId(c) == IF c = << >> THEN -1 ELSE c[2]

\* the last line of the template: eight blanks and no line end
LastTemplateLine == << "blank", Fallback, 8 >>

\* NetlOlcaReport.create_report_markdown: a text is its lines and whether
\* the last of them is ended by a newline
create_report_markdown(S) ==
  [ lines |-> << Slot("reference_name", S.rd_name),
                 Slot("process_doc", S.rd_fields.process_doc),
                 Slot("input_flows", S.rd_fields.input_flows),
                 Slot("output_flows", S.rd_fields.output_flows),
                 Slot("param_table", S.rd_fields.param_table),
                 Slot("calculations", CalcId(S.rd_calc)),
                 << "create_date", S.today, 0 >>,
                 LastTemplateLine >>,
    nl |-> FALSE ]

\* str.rstrip of a line
Rstrip(line) == << line[1], line[2], 0 >>

\* the report fields that create_report_markdown reads
ReportFields(S) == [ name |-> S.rd_name, fields |-> S.rd_fields, calc |-> S.rd_calc ]

\* NetlOlcaReport.save_markdown that renders only when rd.md is None
save_markdownStale(S, fileOk) ==
  LET S1 == IF S.rd_md = << >>
            THEN [S EXCEPT !.rd_md = << create_report_markdown(S) >>,
                           !.rendered_from = << ReportFields(S) >>]
            ELSE S
  IN IF ~fileOk THEN Raise(S1, "OSError: markdown file")
     ELSE Say([S1 EXCEPT !.md_files = @ \cup {S.rd_name},
                         !.md_text[S.rd_name] = S1.rd_md],
              "print", "Markdown report saved")

\* NetlOlcaReport.save_markdown: renders, then writes the file; an OSError
\* of the write propagates
save_markdown(S, fileOk) ==
  LET S1 == [S EXCEPT !.rd_md = << create_report_markdown(S) >>,
                      !.rendered_from = << ReportFields(S) >>]
  IN IF ~fileOk THEN Raise(S1, "OSError: markdown file")
     ELSE Say([S1 EXCEPT !.md_files = @ \cup {S.rd_name},
                         !.md_text[S.rd_name] = S1.rd_md],
              "print", "Markdown report saved")

\* NetlOlcaReport.read_report_markdown of the default markdown file: every
\* line is stripped at its end and ended by a newline
read_report_markdown(S, fileOk) ==
  IF S.rd_name \in S.md_files /\ fileOk
  THEN LET f == S.md_text[S.rd_name][1]
       IN [S EXCEPT !.rd_md = << [ lines |-> [i \in 1..Len(f.lines) |-> Rstrip(f.lines[i])],
                                    nl |-> Len(f.lines) > 0 ] >>,
                    !.rendered_from = << >>]
  ELSE Raise(S, "OSError: markdown file")

\* The characters of a reference name: a letter, a blank, two of the special
\* characters and the underscore.  A name is a sequence of characters; the
\* empty sequence stands for None and for the empty string.
Alphabet == { "a", " ", ".", "&", "_" }
White == { " " }
Special == { ".", "&" }

\* the rest of s after its leading characters of the class cls
RECURSIVE DropRun(_, _)
DropRun(s, cls) ==
  IF s # << >> /\ Head(s) \in cls THEN DropRun(Tail(s), cls) ELSE s

\* re.sub(<cls>+, "_", s): every maximal run of characters of the class
\* becomes one underscore
RECURSIVE SubRuns(_, _)
SubRuns(s, cls) ==
  IF s = << >> THEN << >>
  ELSE IF Head(s) \in cls THEN << "_" >> \o SubRuns(DropRun(Tail(s), cls), cls)
  ELSE << Head(s) >> \o SubRuns(Tail(s), cls)

\* get_file_name that leaves the underscores as the first two
\* substitutions made them
ReduceUnderscoresNot(s) == s

\* get_file_name: re.sub(p3, "_", r_name)
ReduceUnderscores(s) == SubRuns(s, {"_"})

\* get_file_name: the trailing underscore is dropped
DropTrailing(s) == IF s[Len(s)] = "_" THEN SubSeq(s, 1, Len(s) - 1) ELSE s

\* self.valid_ext
valid_ext == { ".md", ".txt", ".docx", ".html", ".pdf" }

\* str.startswith(".") of the lower-cased extensions of the model
StartsWithDot(e) == e \in { ".md", ".txt", ".docx", ".html", ".pdf", ".m", "." }

\* NetlOlcaReport.get_file_name that takes the extension as it is written
get_file_nameCaseSensitive(reference_name, ext) ==
  LET e1 == ext
      e2 == IF StartsWithDot(e1) THEN e1 ELSE "." \o e1
      e3 == IF e2 = ".txt" THEN ".md" ELSE e2
  IN IF e2 \notin valid_ext THEN [ raised |-> "ValueError", name |-> << >> ]
     ELSE IF reference_name = << >>
     THEN [ raised |-> "", name |-> << "report", e3 >> ]
     ELSE [ raised |-> "",
            name |-> DropTrailing(ReduceUnderscores(
                       SubRuns(SubRuns(reference_name, White), Special)))
                     \o << e3 >> ]

\* NetlOlcaReport.get_file_name: the file name as its characters followed
\* by the extension, or the exception that is raised
get_file_name(reference_name, ext) ==
  LET e1 == Lower(ext)
      e2 == IF StartsWithDot(e1) THEN e1 ELSE "." \o e1
      e3 == IF e2 = ".txt" THEN ".md" ELSE e2
  IN IF e2 \notin valid_ext THEN [ raised |-> "ValueError", name |-> << >> ]
     ELSE IF reference_name = << >>
     THEN [ raised |-> "", name |-> << "report", e3 >> ]
     ELSE [ raised |-> "",
            name |-> DropTrailing(ReduceUnderscores(
                       SubRuns(SubRuns(reference_name, White), Special)))
                     \o << e3 >> ]

\* the names of the allocation types of the data source
AllocationTypeNames ==
  { "CAUSAL_ALLOCATION", "ECONOMIC_ALLOCATION", "NO_ALLOCATION",
    "PHYSICAL_ALLOCATION", "USE_DEFAULT_ALLOCATION" }

\* self.allocation_types
allocation_types ==
  [ CAUSAL_ALLOCATION |-> "Causal", PHYSICAL_ALLOCATION |-> "Physical",
    ECONOMIC_ALLOCATION |-> "Economic", NO_ALLOCATION |-> "No allocation" ]

\* dict.get(key, default)
Get(d, key, default) == IF key \in DOMAIN d THEN d[key] ELSE default

\* the keys of r_dict in format_allocation
Groups == { "Physical", "Economic", "Causal" }

\* format_allocation: the rows its loop appends to r_dict[group]
RowsOf(a_factors, group) ==
  Len(SelectSeq(a_factors, LAMBDA t : Get(allocation_types, t, "None") = group))

\* format_allocation: a part of the text for the rows of a group, none
\* when there are no rows
TableOf(a_factors, group) ==
  IF RowsOf(a_factors, group) > 0
  THEN << << "table", group, RowsOf(a_factors, group) >> >>
  ELSE << >>

\* NetlOlcaReport.format_allocation on the factors and the default method
\* that get_allocation_info returns ("None" for no default): the text as
\* its parts, or the exception that is raised.  r_dict[a_type] is looked up
\* for every type that allocation_types knows.
format_allocation(a_factors, a_default) ==
  LET default_name == IF a_default # "None"
                      THEN Get(allocation_types, a_default, "No allocation")
                      ELSE "No allocation"
      a_types == [i \in 1..Len(a_factors) |->
                    Get(allocation_types, a_factors[i], "None")]
  IN IF \E i \in 1..Len(a_factors) : a_types[i] # "None" /\ a_types[i] \notin Groups
     THEN [ raised |-> "KeyError", text |-> << >> ]
     ELSE [ raised |-> "",
            text |-> << << "default", default_name, 0 >> >>
                     \o (IF Len(a_factors) > 0
                         THEN << << "blank", "", 0 >> >>
                              \o TableOf(a_factors, "Economic")
                              \o TableOf(a_factors, "Physical")
                              \o TableOf(a_factors, "Causal")
                         ELSE << >>) ]

\* the names of the parameter scopes of the data source
ParameterScopeNames == { "PROCESS_SCOPE", "IMPACT_SCOPE", "GLOBAL_SCOPE" }

\* format_parameter_table: the list comprehensions.  A parameter is
\* << the name of its scope, is_input_parameter >>; the positions in
\* param_list of the parameters of a scope that are (or are not) input
\* parameters, in the order of the list
GroupOf(param_list, scope, is_input) ==
  SelectSeq([i \in 1..Len(param_list) |-> i],
            LAMBDA i : param_list[i][1] = scope /\ param_list[i][2] = is_input)

\* format_parameter_table: the table rows of a group of parameters
RowsFor(group) == [j \in 1..Len(group) |-> << "row", "", group[j] >>]

\* format_parameter_table: the equations of a group of parameters
EquationsFor(group) == [j \in 1..Len(group) |-> << "eq", "", group[j] >>]

\* NetlOlcaReport.format_parameter_table: the text as its parts, each
\* << kind, label, position of the parameter in param_list >>: the
\* equations with their introduction, then the table
format_parameter_table(param_list) ==
  LET proc_input_params == GroupOf(param_list, "PROCESS_SCOPE", TRUE)
      proc_calc_params == GroupOf(param_list, "PROCESS_SCOPE", FALSE)
      glob_input_params == GroupOf(param_list, "GLOBAL_SCOPE", TRUE)
      glob_calc_params == GroupOf(param_list, "GLOBAL_SCOPE", FALSE)
      num_proc_params == Len(proc_input_params) + Len(proc_calc_params)
      num_glob_params == Len(glob_input_params) + Len(glob_calc_params)
      md_formula ==
        (IF Len(proc_calc_params) > 0 \/ Len(glob_calc_params) > 0
         THEN << << "intro", "formulas", 0 >> >> ELSE << >>)
        \o (IF num_proc_params > 0 THEN EquationsFor(proc_calc_params) ELSE << >>)
        \o (IF num_glob_params > 0 THEN EquationsFor(glob_calc_params) ELSE << >>)
      md_table ==
        (IF Len(param_list) > 0
         THEN << << "intro", "table", 0 >>, << "header", "", 0 >> >> ELSE << >>)
        \o (IF num_proc_params > 0
            THEN << << "divider", "Process", 0 >> >>
                 \o RowsFor(proc_input_params) \o RowsFor(proc_calc_params)
            ELSE << >>)
        \o (IF num_glob_params > 0
            THEN << << "divider", "Global", 0 >> >>
                 \o RowsFor(glob_input_params) \o RowsFor(glob_calc_params)
            ELSE << >>)
  IN md_formula \o md_table

\* NetlOlcaReport.get_file_path: a path is << the reference name the file
\* name is made from, the extension >>
get_file_path(S, ext) == << S.rd_name, ext >>

\* os.path.isfile of a path: the markdown files are the files of the model
IsFile(S, path) == path[2] = "md" /\ path[1] \in S.md_files

\* NetlOlcaReport.convert: an OSError when the input file is missing;
\* otherwise pandoc is run on the two paths, and its failure is an OSError
convert(S, from_file, to_file, convertOk) ==
  IF S.pc # "running" THEN S
  ELSE IF ~IsFile(S, from_file) THEN Raise(S, "OSError: convert")
  ELSE LET S1 == [S EXCEPT !.pandoc_args = << << from_file, to_file >> >>]
       IN IF ~convertOk THEN Raise(S1, "OSError: convert")
          ELSE Say(S1, "print", "Report saved")

\* the first lines of convert_to_html, convert_to_pdf, convert_to_word when
\* they write the markdown file whether or not there is one
EnsureMarkdownAlwaysSaves(S, input_path, fileOk) ==
  save_markdown(S, fileOk)

\* the first lines of convert_to_html, convert_to_pdf, convert_to_word
EnsureMarkdown(S, input_path, fileOk) ==
  IF IsFile(S, input_path) THEN read_report_markdown(S, fileOk)
  ELSE save_markdown(S, fileOk)

\* NetlOlcaReport.convert_to_html
convert_to_html(S, fileOk, convertOk) ==
  LET input_path == get_file_path(S, "md")
      S1 == EnsureMarkdown(S, input_path, fileOk)
  IN convert(S1, input_path, get_file_path(S1, "html"), convertOk)

\* NetlOlcaReport.convert_to_word
convert_to_word(S, fileOk, convertOk) ==
  LET input_path == get_file_path(S, "md")
      S1 == EnsureMarkdown(S, input_path, fileOk)
  IN convert(S1, input_path, get_file_path(S1, "docx"), convertOk)

\* NetlOlcaReport.convert_to_pdf: the OSError of convert is caught and logged
convert_to_pdf(S, fileOk, convertOk) ==
  LET input_path == get_file_path(S, "md")
      S1 == EnsureMarkdown(S, input_path, fileOk)
      S2 == convert(S1, input_path, get_file_path(S1, "pdf"), convertOk)
  IN IF S1.pc = "running" /\ S2.pc = "crashed"
     THEN Say([S2 EXCEPT !.pc = "running", !.exc = "", !.stack = S1.stack],
              "log", "Failed to generate PDF")
     ELSE S2

\* NetlOlcaReport.read_calc_wb: the formatted rows of the workbook, None
\* (<< >>) when reading fails; an empty sheet gives the empty string
read_calc_wb(file_path, calcOk) ==
  IF file_path # << >> /\ calcOk THEN file_path ELSE << >>

\* Interface.save_report without its except clause
save_reportUncaught(S, o) ==
  LET S1 == fetch_data(S, S.product_sys_uid, o)
      calculations == read_calc_wb(S.calc_file, o.calcOk)
      S1c == IF calculations # << >> THEN [S1 EXCEPT !.rd_calc = calculations]
             ELSE Say(S1, "print", "No calculations found")
  IN save_markdown(S1c, o.fileOk)

\* Interface.save_report: every exception is caught and printed
save_report(S, o) ==
  LET S1 == fetch_data(S, S.product_sys_uid, o)
      calculations == read_calc_wb(S.calc_file, o.calcOk)
      S1c == IF calculations # << >> THEN [S1 EXCEPT !.rd_calc = calculations]
             ELSE Say(S1, "print", "No calculations found")
      S2 == save_markdown(S1c, o.fileOk)
  IN IF S2.pc = "crashed"
     THEN Say([S2 EXCEPT !.pc = "running", !.exc = "", !.stack = S.stack],
              "print", "Error during report generation")
     ELSE S2

\* Interface.read_report
read_report(S, fileOk) ==
  LET S1 == read_report_markdown(S, fileOk)
  IN IF S1.pc = "crashed"
     THEN Say([S EXCEPT !.pc = "running"], "print", "Markdown report is not found!")
     ELSE Say(S1, "print", "Markdown report read.")


(***************************************************************************)
(* The bound actions of the options, as far as they run before they read   *)
(* a line or return.  The oracle o tells how the collaborators answer.     *)
(***************************************************************************)
\* Interface.connect_json
connect_json(S, nData) ==
  ShowMenu(set_working_dir(S, S.work_dir, nData), "connection_json")

\* Interface.open_server: connect is called outside the try, read inside
open_server(S, o, nData) ==
  IF ~o.connectOk THEN Raise(S, "connect failed")
  ELSE IF ~o.readOk
  THEN warn(S, "Failed to connect to IPC server on port")
  ELSE LET S1 == [S EXCEPT !.num_ps = o.nps, !.connected = TRUE]
       IN PromptProductSystem(Push(Push(S1, "open_server"), "product_system"), o, nData)

\* Interface.query_description, query_documentation, query_category,
\* query_flows: queries of the data source, then prints
query_any(S, o) ==
  LET S1 == IF S.product_sys_uid = 0
            THEN warn(S, "Assuming the reference product system") ELSE S
  IN IF ~o.q THEN Raise(S1, "query failed") ELSE Say(S1, "print", "query result")

\* Interface.handle_report_publication up to its input() or its end
handle_report_publication(S, o) ==
  IF ~o.pandoc
  THEN [Say(S, "print", "Pandoc is not installed.") EXCEPT !.pc = "pandoc"]
  ELSE ShowMenu(S, "publish")

\* Interface.print_report
print_report(S) ==
  IF S.rd_md = << >> THEN Say(S, "print", "Please read or write report to file first.")
  ELSE Say(S, "print", "report")

\* self.params[ans]['func'](): the bound action of an option
Func(S, c, o, nData, nCalc) ==
  CASE c = "1" -> connect_json(S, nData)
    [] c = "1a" -> PromptFreeText(Push(S, "working_dir"))
    [] c = "1b" -> PromptProjectFile(Push(S, "project_file"), nData)
    [] c = "2" -> ShowMenu(S, "connection_olca")
    [] c = "2a" -> PromptFreeText(Push(S, "server_port"))
    [] c = "2b" -> open_server(S, o, nData)
    [] c = "3" -> ShowMenu(S, "query")
    [] c \in {"3a", "3b", "3c", "3d"} -> query_any(S, o)
    [] c = "4" -> ShowMenu(S, "report")
    [] c = "4a" -> print_report(S)
    [] c = "4b" -> save_report(S, o)
    [] c = "4c" -> read_report(S, o.fileOk)
    [] c = "5" -> handle_report_publication(S, o)
    [] c = "5a" -> convert_to_pdf(S, o.fileOk, o.convertOk)
    [] c = "5b" -> convert_to_word(S, o.fileOk, o.convertOk)
    [] c = "5c" -> convert_to_html(S, o.fileOk, o.convertOk)
    [] c = "6" -> PromptFreeText(Push(S, "process_type"))
    [] c = "7" -> PromptCalculationFile(Push(S, "calc_file"), nCalc)
    [] c = "q" -> quit(S)
    [] c = "h" -> Raise(S, "TypeError")
    [] c = "m" -> show_options(S)
    [] c = "o" -> ShowMenu(S, "misc")
    [] c = "e" -> ShowMenu(S, "edit")
    [] c = "e1" -> PromptNewActor(Push(S, "new_actor"), o)
    [] c = "e2" -> PromptReviewer(Push(S, "reviewer"), o)
    [] c = "p" -> PromptProductSystem(Push(S, "product_system"), o, nData)

\* Interface.show_help that looks the option up without testing for it
show_helpUnchecked(S, h_opt) ==
  IF h_opt \in DOMAIN S.show THEN Say(S, "help", h_opt)
  ELSE Raise(S, "KeyError")

\* Interface.show_help
show_help(S, h_opt) ==
  IF h_opt \in DOMAIN S.show THEN Say(S, "help", h_opt)
  ELSE Say(S, "help", "ERROR: Option not recognized.")

\* Interface.help
help(S, h_str) ==
  LET m == HelpMatch(h_str)
  IN IF m = "" /\ StartsWithHelp(Lower(h_str)) THEN Say(S, "help", "Usage: help(<option>)")
     ELSE IF m = "" /\ StartsWithH(Lower(h_str)) THEN Say(S, "help", "Usage: h(<option>)")
     ELSE IF m # "" THEN show_help(S, m)
     ELSE show_options(S)

\* Interface.do_next after its input(): the option table is looked up by the
\* lower-cased line and indexed by the line as it was typed
do_next(S, ans, o, nData, nCalc) ==
  IF Lower(ans) \in {"exit", "quit"} THEN quit(S)
  ELSE IF StartsWithH(Lower(ans)) THEN help(S, ans)
  ELSE IF Lower(ans) \in DOMAIN S.show
  THEN IF ans \notin DOMAIN S.show THEN Raise(S, "KeyError")
       ELSE Func([S EXCEPT !.invoked = ans], ans, o, nData, nCalc)
  ELSE show_options(Say(S, "print", "Invalid option."))


(***************************************************************************)
(* The actions: one line of input each.                                    *)
(***************************************************************************)
\* the report fields as NetlOlcaReport.__init__ leaves them
NoFields ==
  [ input_flows |-> -1, output_flows |-> -1, process_doc |-> -1, param_table |-> -1 ]

\* Interface.__init__ and NetlOlcaReport.__init__
Constructed ==
  /\ pc = "not_started" /\ stack = << >> /\ pending = "" /\ bound = 0
  /\ is_okay = TRUE /\ is_running = FALSE /\ hidden_state = 0
  /\ show = InitShow
  /\ work_dir = DATA_DIR /\ work_file = << >> /\ calc_file = << >>
  /\ json_set = << >> /\ calc_set = << >>
  /\ product_sys_uid = 0 /\ process_code = "BP" /\ port = "default"
  /\ rd_name = -1 /\ rd_fetched = FALSE /\ rd_md = << >> /\ rd_calc = << >>
  /\ md_files = {} /\ md_text = [n \in -1..MaxPS |-> << >>]
  /\ rd_fields = NoFields /\ today = 1 /\ rendered_from = << >>
  /\ arg = << >> /\ result = << >>
  /\ num_ps = 0 /\ connected = FALSE
  /\ last_prompt = "none" /\ last_ans = "" /\ invoked = "none"
  /\ out = << >> /\ exc = "" /\ pandoc_args = << >> /\ listed = << >>

\* the session starts with no data folder, an empty one or one with
\* MaxFiles project files; the calculations folder is empty
Init ==
  /\ dataFiles \in {-1, 0, MaxFiles}
  /\ calcFiles = 0
  /\ Constructed

\* the session starts with project files and no workbook
InitReport ==
  /\ dataFiles = MaxFiles
  /\ calcFiles = 0
  /\ Constructed

\* the session starts with project files and any number of workbooks
InitFields ==
  /\ dataFiles \in {0, MaxFiles}
  /\ calcFiles \in -1..MaxBooks
  /\ Constructed

\* Interface.run up to the first input() or to its return
run(S, nData) ==
  LET S1 == [S EXCEPT !.is_running = TRUE]
  IN IF S1.hidden_state = 0
     THEN IF ~IsDir(S1.work_dir, nData)
          THEN PromptFreeText(Push(Push(S1, "startup"), "working_dir"))
          ELSE show_options(S1)
     ELSE [S1 EXCEPT !.pc = "done"]

\* run() is called: at the start, or again after it returned.  An exception
\* that leaves run() ends the session.
Run ==
  /\ pc \in {"not_started", "done"}
  /\ Commit(ToMain(run([Begin("run", "") EXCEPT !.exc = "", !.stack = << >>], dataFiles)))

\* the options whose action consults a collaborator before it reads a line
OracleCodes ==
  {"2b", "3a", "3b", "3c", "3d", "4b", "4c", "5", "5a", "5b", "5c", "e1", "e2", "p"}

\* do_next with a line whose handling consults no collaborator
DoNext ==
  /\ pc = "main"
  /\ \E ans \in MainLines \ OracleCodes :
       Commit(ToMain(do_next(Begin("main", ans), ans, AllOk, dataFiles, calcFiles)))

\* do_next with '2b': connect raises, or read raises, or the listing of the
\* product systems raises, or nps product systems are listed (the reference
\* name is asked for only when there is exactly one: none, one or MaxPS)
DoNextOpenServer ==
  /\ pc = "main"
  /\ \E o \in { [AllOk EXCEPT !.connectOk = FALSE], [AllOk EXCEPT !.readOk = FALSE],
                [AllOk EXCEPT !.q = FALSE], [AllOk EXCEPT !.nps = 1, !.nameOk = FALSE],
                [AllOk EXCEPT !.nps = 1, !.idOk = FALSE] }
                \cup { [AllOk EXCEPT !.nps = nps] : nps \in {0, 1, MaxPS} } :
       Commit(ToMain(do_next(Begin("main", "2b"), "2b", o, dataFiles, calcFiles)))

\* do_next with '3a'..'3d'
DoNextQuery ==
  /\ pc = "main"
  /\ \E ans \in {"3a", "3b", "3c", "3d"}, q \in BOOLEAN :
       Commit(ToMain(do_next(Begin("main", ans), ans, [AllOk EXCEPT !.q = q],
                             dataFiles, calcFiles)))

\* the outcomes of the queries of fetch_data(uuid)
FetchOutcomes(uid) ==
  {"ok", "first", "flows", "later"} \cup (IF uid = 0 THEN {"unknown id"} ELSE {})

\* do_next with '4b' or '4c'
DoNextReport ==
  /\ pc = "main"
  /\ \E ans \in {"4b", "4c"}, at \in FetchOutcomes(product_sys_uid),
        has \in BOOLEAN, calcOk \in BOOLEAN, fileOk \in BOOLEAN :
       LET o == [AllOk EXCEPT !.at = at, !.calcOk = calcOk, !.fileOk = fileOk,
                              !.hasIn = has, !.hasOut = has, !.hasDoc = has]
       IN Commit(ToMain(do_next(Begin("main", ans), ans, o, dataFiles, calcFiles)))

\* do_next with '5'
DoNextPublishMenu ==
  /\ pc = "main"
  /\ \E pandoc \in BOOLEAN :
       Commit(ToMain(do_next(Begin("main", "5"), "5", [AllOk EXCEPT !.pandoc = pandoc],
                             dataFiles, calcFiles)))

\* do_next with '5a', '5b' or '5c'
DoNextPublish ==
  /\ pc = "main"
  /\ \E ans \in {"5a", "5b", "5c"}, fileOk \in BOOLEAN, convertOk \in BOOLEAN :
       LET o == [AllOk EXCEPT !.fileOk = fileOk, !.convertOk = convertOk]
       IN Commit(ToMain(do_next(Begin("main", ans), ans, o, dataFiles, calcFiles)))

\* do_next with 'e1' or 'e2'
DoNextActor ==
  /\ pc = "main"
  /\ \E ans \in {"e1", "e2"}, q \in BOOLEAN, n \in 0..MaxActors :
       LET o == [AllOk EXCEPT !.q = q, !.n = n]
       IN Commit(ToMain(do_next(Begin("main", ans), ans, o, dataFiles, calcFiles)))

\* do_next with 'p'
DoNextProductSystem ==
  /\ pc = "main"
  /\ \E q \in BOOLEAN, nameOk \in BOOLEAN, idOk \in BOOLEAN :
       LET o == [AllOk EXCEPT !.q = q, !.nameOk = nameOk, !.idOk = idOk]
       IN Commit(ToMain(do_next(Begin("main", "p"), "p", o, dataFiles, calcFiles)))

\* handle_report_publication after its input()
AnswerPandoc ==
  /\ pc = "pandoc"
  /\ \E ans \in PandocLines :
       LET S0 == Begin("pandoc", ans)
       IN Commit(ToMain(IF Lower(Lower(Strip(ans))) # "y"
                        THEN Say(S0, "log", "Okay.")
                        ELSE ShowMenu(S0, "publish_empty")))

\* the confirmation prompt of check_ans is issued for the value ans
AskConfirm(S, ans) == [S EXCEPT !.pc = "confirm", !.pending = ans]

\* prompt_working_dir after its input()
AnswerWorkingDir ==
  /\ pc = "prompt" /\ Top(Cur) = "working_dir"
  /\ \E ans \in DirLines :
       LET S1 == check_val(Begin("working_dir", ans), ans)
       IN Commit(ToMain(IF S1.ret THEN EndPrompt(S1, AllOk, dataFiles, calcFiles)
                        ELSE AskConfirm(S1, ans)))

\* prompt_working_dir after a confirmed value
ConfirmWorkingDir ==
  /\ pc = "confirm" /\ Top(Cur) = "working_dir"
  /\ \E ans \in YesLines :
       LET val == pending
           S1 == set_working_dir(Begin("confirm", ans), val, dataFiles)
           S2 == IF ~S1.ret /\ IsDir(val, dataFiles)
                 THEN warn(S1, "No files found in directory")
                 ELSE IF ~S1.ret THEN warn(S1, "Working directory must exist")
                 ELSE success(S1)
       IN /\ check_ans(ans)
          /\ Commit(ToMain(EndPrompt(S2, AllOk, dataFiles, calcFiles)))

\* prompt_server_port after its input()
AnswerServerPort ==
  /\ pc = "prompt" /\ Top(Cur) = "server_port"
  /\ \E ans \in PortLines :
       LET S1 == check_val(Begin("server_port", ans), ans)
       IN Commit(ToMain(IF S1.ret THEN EndPrompt(S1, AllOk, dataFiles, calcFiles)
                        ELSE AskConfirm(S1, ans)))

\* prompt_server_port after a confirmed value
ConfirmServerPort ==
  /\ pc = "confirm" /\ Top(Cur) = "server_port"
  /\ \E ans \in YesLines, portOk \in BOOLEAN :
       LET S1 == set_server_port(Begin("confirm", ans), pending, portOk)
           S2 == IF ~S1.ret THEN warn(S1, "Port number not set!") ELSE success(S1)
       IN /\ check_ans(ans)
          /\ Commit(ToMain(EndPrompt(S2, AllOk, dataFiles, calcFiles)))

\* prompt_process_type after its input(): no confirmation is asked
AnswerProcessType ==
  /\ pc = "prompt" /\ Top(Cur) = "process_type"
  /\ \E ans \in TypeLines :
       LET S1 == check_val(Begin("process_type", ans), ans)
           S2 == IF S1.ret THEN S1 ELSE set_process_type(S1, ans)
           S3 == IF ~S2.ret THEN warn(S2, "Selection should be a two-letter option.")
                 ELSE S2
       IN Commit(ToMain(EndPrompt(S3, AllOk, dataFiles, calcFiles)))

\* prompt_project_file after its input(): the number is parsed also after a
\* quit or a blank line
AnswerProjectFile ==
  /\ pc = "prompt" /\ Top(Cur) = "project_file"
  /\ \E ans \in SelectLines :
       LET S1 == check_val(Begin("project_file", ans), ans)
       IN Commit(ToMain(
            IF ans \notin IntLines
            THEN EndPrompt(warn(S1, "Select from 1 to N"), AllOk, dataFiles, calcFiles)
            ELSE IF IntOf(ans) < 1 \/ IntOf(ans) > Len(S1.json_set)
            THEN EndPrompt(warn(S1, "Choose number from 1 to N"), AllOk, dataFiles, calcFiles)
            ELSE AskConfirm(S1, ans)))

\* prompt_project_file after a confirmed number: the file is opened and
\* read, then the product system is requested
ConfirmProjectFile ==
  /\ pc = "confirm" /\ Top(Cur) = "project_file"
  /\ \E ans \in YesLines, openOk \in BOOLEAN, readOk \in BOOLEAN,
        nps \in 0..MaxPS, q \in BOOLEAN, nameOk \in BOOLEAN :
       LET o == [AllOk EXCEPT !.q = q, !.nameOk = nameOk]
           p_file == json_set[IntOf(pending)]
           S1 == set_project_file(Begin("confirm", ans), p_file, openOk, readOk, nps)
       IN /\ check_ans(ans)
          /\ Commit(ToMain(
               IF ~S1.ret
               THEN EndPrompt(warn(S1, "Project file not set!"), o, dataFiles, calcFiles)
               ELSE PromptProductSystem(Push(S1, "product_system"), o, dataFiles)))

\* prompt_calculation_file after its input()
AnswerCalculationFile ==
  /\ pc = "prompt" /\ Top(Cur) = "calc_file"
  /\ \E ans \in SelectLines :
       LET S1 == check_val(Begin("calc_file", ans), ans)
       IN Commit(ToMain(
            IF ans \notin IntLines
            THEN EndPrompt(warn(S1, "Select from 1 to N"), AllOk, dataFiles, calcFiles)
            ELSE IF IntOf(ans) < 1 \/ IntOf(ans) > Len(S1.calc_set)
            THEN EndPrompt(warn(S1, "Choose number from 1 to N"), AllOk, dataFiles, calcFiles)
            ELSE AskConfirm(S1, ans)))

\* prompt_calculation_file after a confirmed number
ConfirmCalculationFile ==
  /\ pc = "confirm" /\ Top(Cur) = "calc_file"
  /\ \E ans \in YesLines :
       LET S1 == set_calc_file(Begin("confirm", ans), calc_set[IntOf(pending)])
           S2 == IF ~S1.ret THEN warn(S1, "Calculation file not set!") ELSE S1
       IN /\ check_ans(ans)
          /\ Commit(ToMain(EndPrompt(S2, AllOk, dataFiles, calcFiles)))

\* prompt_product_system after its input()
AnswerProductSystem ==
  /\ pc = "prompt" /\ Top(Cur) = "product_system"
  /\ \E ans \in SelectLines, q \in BOOLEAN :
       LET o == [AllOk EXCEPT !.q = q]
           S1 == check_val(Begin("product_system", ans), ans)
       IN Commit(ToMain(
            IF S1.ret THEN EndPrompt(S1, o, dataFiles, calcFiles)
            ELSE IF ans \notin IntLines
            THEN EndPrompt(warn(S1, "Selection should be an integer."), o, dataFiles, calcFiles)
            ELSE IF IntOf(ans) < 1 \/ IntOf(ans) > bound
            THEN EndPrompt(warn(S1, "Choose number from 1 to N"), o, dataFiles, calcFiles)
            ELSE AskConfirm(S1, ans)))

\* prompt_product_system after a confirmed number
ConfirmProductSystem ==
  /\ pc = "confirm" /\ Top(Cur) = "product_system"
  /\ \E ans \in YesLines, q \in BOOLEAN, nameOk \in BOOLEAN :
       LET o == [AllOk EXCEPT !.q = q, !.nameOk = nameOk]
           S1 == set_product_system(Begin("confirm", ans), IntOf(pending), IdList(Cur, o), q, nameOk)
           S2 == IF S1.pc # "running" THEN S1
                 ELSE IF ~S1.ret THEN warn(S1, "Product system failed to set")
                 ELSE success(S1)
       IN /\ check_ans(ans)
          /\ Commit(ToMain(EndPrompt(S2, o, dataFiles, calcFiles)))

\* prompt_new_actor after its input()
AnswerNewActor ==
  /\ pc = "prompt" /\ Top(Cur) = "new_actor"
  /\ \E ans \in SelectLines, q \in BOOLEAN, n \in 0..MaxActors :
       LET o == [AllOk EXCEPT !.q = q, !.n = n]
           S1 == check_val(Begin("new_actor", ans), ans)
       IN Commit(ToMain(
            IF S1.ret THEN EndPrompt(S1, o, dataFiles, calcFiles)
            ELSE IF ans \notin IntLines
            THEN EndPrompt(warn(S1, "Selection should be an integer."), o, dataFiles, calcFiles)
            ELSE IF IntOf(ans) < 1 \/ IntOf(ans) > bound
            THEN EndPrompt(warn(S1, "Choose a number from 1 to N"), o, dataFiles, calcFiles)
            ELSE AskConfirm(S1, ans)))

\* prompt_new_actor after a confirmed number: add_to_project
ConfirmNewActor ==
  /\ pc = "confirm" /\ Top(Cur) = "new_actor"
  /\ \E ans \in YesLines, q \in BOOLEAN, addOk \in BOOLEAN, n \in 0..MaxActors :
       LET o == [AllOk EXCEPT !.q = q, !.n = n]
           S0 == Begin("confirm", ans)
           S1 == IF ~q THEN Raise(S0, "query failed")
                 ELSE IF ~addOk THEN warn([S0 EXCEPT !.ret = FALSE], "Failed to set new actor")
                 ELSE success([S0 EXCEPT !.ret = TRUE])
       IN /\ check_ans(ans)
          /\ Commit(ToMain(EndPrompt(S1, o, dataFiles, calcFiles)))

\* prompt_reviewer after its input(): the text of the out-of-range warning
\* is built as ("..." % num_names) + 1
AnswerReviewer ==
  /\ pc = "prompt" /\ Top(Cur) = "reviewer"
  /\ \E ans \in SelectLines, q \in BOOLEAN, n \in 0..MaxActors :
       LET o == [AllOk EXCEPT !.q = q, !.n = n]
           S1 == check_val(Begin("reviewer", ans), ans)
       IN Commit(ToMain(
            IF S1.ret THEN EndPrompt(S1, o, dataFiles, calcFiles)
            ELSE IF ans \notin IntLines
            THEN EndPrompt(warn(S1, "Selection should be an integer."), o, dataFiles, calcFiles)
            ELSE IF IntOf(ans) < 1 \/ IntOf(ans) > bound + 1
            THEN Raise(S1, "TypeError")
            ELSE AskConfirm(S1, ans)))

\* prompt_reviewer after a confirmed number: add_actor for the extra entry,
\* set_reviewer otherwise; is_done stays False after add_actor
ConfirmReviewer ==
  /\ pc = "confirm" /\ Top(Cur) = "reviewer"
  /\ \E ans \in YesLines, q \in BOOLEAN, addOk \in BOOLEAN, n \in 0..MaxActors :
       LET o == [AllOk EXCEPT !.q = q, !.n = n]
           S0 == Begin("confirm", ans)
           S1 == IF ~q THEN Raise(S0, "query failed")
                 ELSE IF ~addOk THEN warn([S0 EXCEPT !.ret = FALSE], "Failed to set reviewer")
                 ELSE success([S0 EXCEPT !.ret = TRUE])
       IN /\ check_ans(ans)
          /\ Commit(ToMain(
               IF IntOf(pending) > bound
               THEN PromptNewActor(Push(S0, "new_actor"), o)
               ELSE EndPrompt(S1, o, dataFiles, calcFiles)))

\* check_ans got an answer other than 'y' or 'yes': nothing is set and the
\* prompt_* method returns is_done = False
ConfirmNo ==
  /\ pc = "confirm"
  /\ \E ans \in AnsLines, q \in BOOLEAN, n \in 0..MaxActors :
       LET o == [AllOk EXCEPT !.q = q, !.n = n]
           S0 == [Begin("confirm", ans) EXCEPT !.ret = FALSE]
       IN /\ ~check_ans(ans)
          /\ Commit(ToMain(EndPrompt(S0, o, dataFiles, calcFiles)))

(***************************************************************************)
(* The specifications.  The interpreter's fields fall into groups that no  *)
(* handler couples, so each specification lets the lines of one group of   *)
(* handlers be answered: the connection (Spec), the other assignable       *)
(* fields (SpecFields), the report (SpecReport).  The command prompt       *)
(* (DoNext) and run() belong to all of them.                               *)
(***************************************************************************)
(* The report assembler called on its own, as a library: one call each.    *)
(* An exception of a call returns to the caller, who goes on.              *)
(***************************************************************************)
\* the state in which a call of the assembler's method name starts
Call(name) ==
  [Cur EXCEPT !.pc = "running", !.last_prompt = name, !.last_ans = "",
              !.invoked = "none", !.out = << >>, !.exc = "",
              !.pandoc_args = << >>, !.listed = << >>]

\* the call is over
Back(S) == [S EXCEPT !.pc = "not_started"]

\* rd.fetch_data(uuid)
FetchData ==
  /\ pc = "not_started"
  /\ \E uid \in 0..MaxPS, at \in {"ok", "first", "flows", "later", "unknown id"},
        hasIn \in BOOLEAN, hasOut \in BOOLEAN, hasDoc \in BOOLEAN :
       LET o == [AllOk EXCEPT !.at = at, !.hasIn = hasIn, !.hasOut = hasOut,
                              !.hasDoc = hasDoc]
       IN /\ at \in FetchOutcomes(uid)
          /\ Commit(Back(fetch_data(Call("fetch_data"), uid, o)))

\* rd.save_markdown()
SaveMarkdown ==
  /\ pc = "not_started"
  /\ \E fileOk \in BOOLEAN :
       Commit(Back(save_markdown(Call("save_markdown"), fileOk)))

\* rd.read_report_markdown()
ReadReportMarkdown ==
  /\ pc = "not_started"
  /\ \E fileOk \in BOOLEAN :
       Commit(Back(read_report_markdown(Call("read_report_markdown"), fileOk)))

\* the user edits the markdown file of the current name: a line with a
\* blank at its end is added
EditReportFile ==
  /\ pc = "not_started"
  /\ rd_name \in md_files
  /\ Len(md_text[rd_name][1].lines) = Len(create_report_markdown(Cur).lines)
  /\ LET f == md_text[rd_name][1]
         S == [Call("edit") EXCEPT
                 !.md_text[rd_name] =
                    << [ lines |-> Append(f.lines, << "note", 0, 1 >>), nl |-> TRUE ] >>]
     IN Commit(Back(S))

\* the option codes and the values make_param_visible is called with
ParamArgs == {"3", "4", "5", "m", "zz"}
ValueArgs == { PyBool(TRUE), PyBool(FALSE), << "str", "yes" >>, << "int", 1 >> }

\* make_param_visible(p, v)
MakeParamVisible ==
  /\ pc = "not_started"
  /\ \E p \in ParamArgs, v \in ValueArgs :
       Commit(Back(make_param_visible(
                     [Call("make_param_visible") EXCEPT !.arg = << p, v >>], p, v)))

\* the reference names and the extensions get_file_name is called with
Names == UNION { [1..n -> Alphabet] : n \in 0..MaxName }
ExtArgs ==
  { "md", ".md", ".MD", "txt", ".Txt", "docx", ".html", "pdf", "PDF",
    "doc", ".m", "." }

\* rd.get_file_name(ext) with the reference name arg[1] and ext = arg[2]
GetFileName ==
  /\ pc = "not_started"
  /\ LET r == get_file_name(arg[1], arg[2])
         S == Call("get_file_name")
     IN Commit(Back(IF r.raised # "" THEN Raise(S, r.raised)
                    ELSE [S EXCEPT !.result = << r.name >>]))

\* the lists of factor types and the default methods the source returns
FactorLists == UNION { [1..n -> AllocationTypeNames] : n \in 0..MaxFactors }
Defaults == AllocationTypeNames \cup { "None" }

\* rd.format_allocation(uuid), the source returning arg[1] and arg[2]
FormatAllocation ==
  /\ pc = "not_started"
  /\ LET r == format_allocation(arg[1], arg[2])
         S == Call("format_allocation")
     IN Commit(Back(IF r.raised # "" THEN Raise(S, r.raised)
                    ELSE [S EXCEPT !.result = << r.text >>]))

\* the parameter lists format_parameter_table is called with
ParamLists ==
  UNION { [1..n -> ParameterScopeNames \X BOOLEAN] : n \in 0..MaxParams }

\* rd.format_parameter_table(param_list) with param_list = arg[1]
FormatParameterTable ==
  /\ pc = "not_started"
  /\ Commit(Back([Call("format_parameter_table") EXCEPT
                    !.result = << format_parameter_table(arg[1]) >>]))

\* rd.convert_to_pdf()
ConvertToPdf ==
  /\ pc = "not_started"
  /\ \E fileOk \in BOOLEAN, convertOk \in BOOLEAN :
       Commit(Back(convert_to_pdf(Call("convert_to_pdf"), fileOk, convertOk)))

\* rd.convert_to_word()
ConvertToWord ==
  /\ pc = "not_started"
  /\ \E fileOk \in BOOLEAN, convertOk \in BOOLEAN :
       Commit(Back(convert_to_word(Call("convert_to_word"), fileOk, convertOk)))

\* rd.convert_to_html()
ConvertToHtml ==
  /\ pc = "not_started"
  /\ \E fileOk \in BOOLEAN, convertOk \in BOOLEAN :
       Commit(Back(convert_to_html(Call("convert_to_html"), fileOk, convertOk)))

\* midnight
NextDay ==
  /\ pc = "not_started"
  /\ today < MaxDays
  /\ Commit(Back([Call("midnight") EXCEPT !.today = today + 1]))


(***************************************************************************)
Next ==
  \/ Run
  \/ DoNext \/ DoNextOpenServer \/ DoNextProductSystem
  \/ AnswerWorkingDir \/ ConfirmWorkingDir
  \/ AnswerProjectFile \/ ConfirmProjectFile
  \/ AnswerProductSystem \/ ConfirmProductSystem
  \/ ConfirmNo

Spec == Init /\ [][Next]_vars

NextFields ==
  \/ Run
  \/ DoNext \/ DoNextActor
  \/ AnswerServerPort \/ ConfirmServerPort
  \/ AnswerProcessType
  \/ AnswerCalculationFile \/ ConfirmCalculationFile
  \/ AnswerNewActor \/ ConfirmNewActor
  \/ AnswerReviewer \/ ConfirmReviewer
  \/ ConfirmNo

SpecFields == InitFields /\ [][NextFields]_vars

NextReport ==
  \/ Run
  \/ DoNext
  \/ DoNextQuery \/ DoNextReport \/ DoNextPublishMenu \/ DoNextPublish
  \/ AnswerPandoc

SpecReport == InitReport /\ [][NextReport]_vars

\* the session starts with project files and workbooks; the prompts that end
\* in a setter of the session are answered
InitSetters ==
  /\ dataFiles = MaxFiles
  /\ calcFiles = MaxBooks
  /\ Constructed

NextSetters ==
  Run \/ DoNext \/ DoNextOpenServer \/ DoNextProductSystem
    \/ AnswerWorkingDir \/ ConfirmWorkingDir
    \/ AnswerProjectFile \/ ConfirmProjectFile
    \/ AnswerProductSystem \/ ConfirmProductSystem
    \/ AnswerProcessType
    \/ AnswerCalculationFile \/ ConfirmCalculationFile
    \/ ConfirmNo
SpecSetters == InitSetters /\ [][NextSetters]_vars

\* the interpreter's part of the state while the assembler is called on its
\* own
NoSession ==
  /\ dataFiles = 0 /\ calcFiles = 0
  /\ pc = "not_started" /\ stack = << >> /\ pending = "" /\ bound = 0
  /\ is_okay = TRUE /\ is_running = FALSE /\ hidden_state = 0
  /\ show = InitShow
  /\ work_dir = DATA_DIR /\ work_file = << >> /\ calc_file = << >>
  /\ json_set = << >> /\ calc_set = << >>
  /\ product_sys_uid = 0 /\ process_code = "BP" /\ port = "default"
  /\ num_ps = 0 /\ connected = FALSE
  /\ last_prompt = "none" /\ last_ans = "" /\ invoked = "none"
  /\ out = << >> /\ exc = "" /\ pandoc_args = << >> /\ listed = << >>

\* a new assembler: NetlOlcaReport.__init__
InitFetch ==
  /\ NoSession
  /\ rd_name = -1 /\ rd_fetched = FALSE /\ rd_md = << >> /\ rd_calc = << >>
  /\ md_files = {} /\ md_text = [n \in -1..MaxPS |-> << >>]
  /\ rd_fields = NoFields /\ today = 1 /\ rendered_from = << >>
  /\ arg = << >> /\ result = << >>

NextFetch == FetchData
SpecFetch == InitFetch /\ [][NextFetch]_vars

\* an assembler whose fields hold what earlier fetches and an earlier
\* save_report left: each field unset or the data of some scope, with or
\* without the text of a workbook; without a name nothing was fetched
InitRender ==
  /\ NoSession
  /\ rd_name \in -1..MaxPS
  /\ rd_fields \in [ {"input_flows", "output_flows", "process_doc", "param_table"}
                       -> {-1, 1, MaxPS} ]
  /\ rd_name = -1 => rd_fields = NoFields
  /\ rd_fetched \in BOOLEAN
  /\ rd_calc \in { << >>, << CALC_DIR, 1 >> }
  /\ rd_md = << >>
  /\ md_files = {} /\ md_text = [n \in -1..MaxPS |-> << >>]
  /\ today = 1 /\ rendered_from = << >>
  /\ arg = << >> /\ result = << >>

\* an assembler with a reference name, asked for a file name
InitFileName ==
  /\ NoSession
  /\ rd_name = -1 /\ rd_fetched = FALSE /\ rd_md = << >> /\ rd_calc = << >>
  /\ md_files = {} /\ md_text = [n \in -1..MaxPS |-> << >>]
  /\ rd_fields = NoFields /\ today = 1 /\ rendered_from = << >>
  /\ arg \in Names \X ExtArgs /\ result = << >>

NextFileName == GetFileName
SpecFileName == InitFileName /\ [][NextFileName]_vars

\* an assembler asked for the allocation text of a process
InitAllocation ==
  /\ NoSession
  /\ rd_name = -1 /\ rd_fetched = FALSE /\ rd_md = << >> /\ rd_calc = << >>
  /\ md_files = {} /\ md_text = [n \in -1..MaxPS |-> << >>]
  /\ rd_fields = NoFields /\ today = 1 /\ rendered_from = << >>
  /\ arg \in FactorLists \X Defaults /\ result = << >>

NextAllocation == FormatAllocation
SpecAllocation == InitAllocation /\ [][NextAllocation]_vars

\* an assembler asked for the parameter section of a list of parameters
InitParameterTable ==
  /\ NoSession
  /\ rd_name = -1 /\ rd_fetched = FALSE /\ rd_md = << >> /\ rd_calc = << >>
  /\ md_files = {} /\ md_text = [n \in -1..MaxPS |-> << >>]
  /\ rd_fields = NoFields /\ today = 1 /\ rendered_from = << >>
  /\ arg \in { << l >> : l \in ParamLists } /\ result = << >>

NextParameterTable == FormatParameterTable
SpecParameterTable == InitParameterTable /\ [][NextParameterTable]_vars

\* a new interpreter whose make_param_visible is called
InitParams == InitFetch
NextParams == MakeParamVisible
SpecParams == InitParams /\ [][NextParams]_vars

\* an assembler with or without fetched data and with no file on disk; it is
\* asked to publish, and between the calls the file may be edited and the
\* day may change
InitConvert ==
  /\ NoSession
  /\ rd_name \in -1..MaxPS
  /\ rd_fields \in { NoFields, [f \in DOMAIN NoFields |-> rd_name] }
  /\ rd_fetched = (rd_fields # NoFields)
  /\ rd_calc = << >> /\ rd_md = << >>
  /\ md_files = {} /\ md_text = [n \in -1..MaxPS |-> << >>]
  /\ today = 1 /\ rendered_from = << >>
  /\ arg = << >> /\ result = << >>

NextConvert ==
  ConvertToPdf \/ ConvertToWord \/ ConvertToHtml \/ EditReportFile \/ NextDay
SpecConvert == InitConvert /\ [][NextConvert]_vars

NextRender == SaveMarkdown \/ ReadReportMarkdown \/ EditReportFile \/ NextDay
SpecRender == InitRender /\ [][NextRender]_vars


(***************************************************************************)
(* Properties.                                                             *)
(***************************************************************************)
\* the options of the review, report, publish, process-type, workbook and
\* other-options menus
GatedCodes ==
  { "3", "3a", "3b", "3c", "3d", "4", "4a", "4b", "4c", "5", "5a", "5b", "5c",
    "6", "7", "o", "e", "e1", "e2", "p" }

\* the top-level options as __init__ leaves them, and as a connection
\* leaves them
PreConnection ==
  /\ show["1"] /\ show["2"]
  /\ \A c \in {"3", "4", "5", "6", "7", "o"} : ~show[c]
PostConnection ==
  /\ ~show["1"] /\ ~show["2"]
  /\ \A c \in {"3", "4", "5", "6", "7", "o"} : show[c]

\* the lines check_val takes for a request to quit
IsQuitKeyword(s) == Lower(s) \in {"q", "quit"}

\* the warnings printed by the last step
Warnings == SelectSeq(out, LAMBDA t : t[1] = "warn")

\* C1: the action of a review, report, publish, process-type, workbook or
\* other-options code is invoked only when a data source has been connected.
C1_GatedActionsNeedConnection == invoked \in GatedCodes => connected

\* C2: the post-connection options are visible, and '1' and '2' hidden, only
\* if a source was opened or queried and read successfully.
C2_VisibleOnlyIfConnected ==
  (\/ \E c \in {"3", "4", "5", "6", "7", "o"} : show[c]
   \/ ~show["1"] \/ ~show["2"]) => connected

\* C3: a quit keyword entered at any prompt stops the session: run() has
\* returned, the running flag is cleared, no further line is read.
C3_QuitStopsSession ==
  (last_prompt \notin {"none", "run"} /\ IsQuitKeyword(last_ans))
    => (pc = "done" /\ ~is_running)

\* C4: whenever the interpreter waits for a line, has returned or has raised,
\* the eight designated options all have their pre-connection visibility or
\* all have their post-connection visibility.
C4_VisibilityAtomic == PreConnection \/ PostConnection

\* C4 witness: a connection succeeded and the command prompt shows the
\* post-connection options.
C4_Witness == connected /\ PostConnection /\ pc = "main"

\* C5: a step of '2b' in which connect or read raises ends with exactly one
\* warning (naming the port) back at the command prompt, with the
\* visibility, the product system and the running flag as they were.
C5_FailedConnectionWarns ==
  [][ ( /\ pc = "main" /\ last_prompt' = "main" /\ last_ans' = "2b"
        /\ \/ exc' = "connect failed"
           \/ Len(Warnings') > 0 /\ Warnings'[1][2] = "Failed to connect to IPC server on port" )
      => ( /\ pc' = "main" /\ exc' = "" /\ Len(Warnings') = 1
           /\ show' = show /\ product_sys_uid' = product_sys_uid
           /\ is_running' ) ]_vars

\* the assignable fields of the session
Fields == << work_dir, work_file, port, product_sys_uid, process_code, calc_file >>

\* C6: an assignable field changes only in the step that answers the
\* confirmation prompt with 'y' or 'yes'; any other answer to it changes no
\* field and leads back to the value prompt.
C6_CommitOnlyAfterYes ==
  [][ /\ (Fields' # Fields) => (pc = "confirm" /\ check_ans(last_ans'))
      /\ (pc = "confirm" /\ ~check_ans(last_ans') /\ exc' = "") => pc' = "prompt" ]_vars

\* the selection prompts and the largest number each accepts
IsSelection(loop) ==
  loop \in {"project_file", "calc_file", "product_system", "new_actor", "reviewer"}
Largest(loop) ==
  CASE loop = "project_file" -> Len(json_set)
    [] loop = "calc_file" -> Len(calc_set)
    [] loop = "reviewer" -> bound + 1
    [] OTHER -> bound

\* the line is neither a quit keyword nor blank, and is not a number of 1..n
IsBadSelection(s, n) ==
  /\ ~IsQuitKeyword(s) /\ ~IsSpace(s) /\ s # ""
  /\ s \notin IntLines \/ IntOf(s) < 1 \/ IntOf(s) > n

\* C7: a non-numeric or out-of-range line at a selection prompt gives a
\* warning and the same prompt again: nothing is raised by the interpreter,
\* no field, flag or visibility changes.  (A failure of the data source
\* while the candidates are listed again is not the interpreter's.)
C7_BadSelectionReprompts ==
  [][ ( /\ pc = "prompt" /\ IsSelection(Top(Cur))
        /\ last_prompt' = Top(Cur) /\ IsBadSelection(last_ans', Largest(Top(Cur)))
        /\ exc' # "query failed" )
      => ( /\ pc' = "prompt" /\ stack' = stack /\ exc' = ""
           /\ Len(Warnings') > 0
           /\ Fields' = Fields /\ show' = show
           /\ is_running' = is_running /\ is_okay' = is_okay ) ]_vars

\* what do_next did with the last line
DidQuit == Lower(last_ans) \in {"exit", "quit", "q"} /\ ~is_running
DidHelp == \E i \in 1..Len(out) : out[i][1] = "help"
DidInvoke == invoked # "none" /\ invoked = Lower(last_ans) /\ ~DidQuit
DidInvalid == out = << << "print", "Invalid option." >>, << "menu", "main" >> >>

\* C8: do_next does not fail on any line; it stops the session, shows help,
\* invokes the action of the code the lower-cased line names, or prints
\* 'Invalid option.' and the options, and only one of these.
C8_DoNextTotal ==
  last_prompt = "main" =>
    /\ exc # "KeyError"
    /\ DidQuit \/ DidHelp \/ DidInvoke \/ DidInvalid
    /\ ~(DidQuit /\ DidHelp) /\ ~(DidQuit /\ DidInvalid) /\ ~(DidHelp /\ DidInvoke)
    /\ ~(DidHelp /\ DidInvalid) /\ ~(DidInvoke /\ DidInvalid)

\* C9: run() returns only after a quit keyword was entered (quit() sets
\* _hidden_state to -1).
C9_LoopEndsOnlyOnQuit == pc = "done" => hidden_state = -1

\* C10: a failure of the converter in '5a', '5b' or '5c' does not leave
\* do_next: the interpreter is back at the command prompt.
C10_ConverterFailureContained ==
  (last_prompt = "main" /\ last_ans \in {"5a", "5b", "5c"})
    => exc # "OSError: convert"

\* what the last step printed
Printed(kind, what) == \E i \in 1..Len(out) : out[i] = << kind, what >>

\* C11: a step of '4b' raises nothing whatever fails in it: a failed write is
\* printed, the interpreter is back at the command prompt, and the running
\* flag, the okay flag, the visibility and the product system are as before.
C11_SaveReportContained ==
  [][ (pc = "main" /\ last_prompt' = "main" /\ last_ans' = "4b")
      => ( /\ exc' = "" /\ pc' = "main"
           /\ Printed("print", "Markdown report saved")'
                \/ Printed("print", "Error during report generation")'
           /\ is_running' = is_running /\ is_okay' = is_okay
           /\ show' = show /\ product_sys_uid' = product_sys_uid ) ]_vars

\* C11 witness: the write of the report failed in a step of '4b' and the
\* interpreter waits at the command prompt.
C11_Witness ==
  /\ last_prompt = "main" /\ last_ans = "4b" /\ pc = "main"
  /\ Printed("print", "Error during report generation")

\* the line is blank: empty or white space only
IsBlank(s) == IsSpace(s) \/ s = ""

\* C12: a blank line at a value prompt ends that prompt's loop, assigns no
\* field and leaves the session running.
C12_BlankSkips ==
  [][ (pc = "prompt" /\ last_prompt' = Top(Cur) /\ IsBlank(last_ans'))
      => ( /\ Fields' = Fields
           /\ stack' # stack
           /\ exc' = "" /\ is_running' /\ pc' \notin {"done", "crashed"} ) ]_vars

\* a setter returned False in the last step: the warning of its caller
SetterRefused ==
  \/ Printed("warn", "No files found in directory")
  \/ Printed("warn", "Working directory must exist")
  \/ Printed("warn", "Project file not set!")
  \/ Printed("warn", "Calculation file not set!")
  \/ Printed("warn", "Product system failed to set")
  \/ Printed("warn", "Selection should be a two-letter option.")

\* C13: the process-type code is always a key of the process-type table; the
\* product-system identifier changes only to one the source lists; a step in
\* which a setter returned False leaves the fields, the visibility and the
\* running flag as they were.
C13_SettersValidate ==
  /\ [](process_code \in ProcessTypes)
  /\ [][ /\ product_sys_uid' # product_sys_uid => product_sys_uid' \in 1..num_ps'
         /\ (SetterRefused' /\ last_prompt' \notin {"main", "run"} /\ out' # out)
              => (Fields' = Fields /\ show' = show /\ is_running' = is_running) ]_vars

\* C13 witness: a setter has refused a value, and a product system and a
\* process type other than the initial ones are set.
C13_Witness ==
  /\ SetterRefused
  /\ product_sys_uid > 0 /\ process_code # "BP"

\* C14: the text of rd.md was rendered from the fields as they are now, so a
\* second rendering now gives the same text.
C14_RenderingIsPure ==
  rendered_from = << ReportFields(Cur) >> => rd_md = << create_report_markdown(Cur) >>

\* line i of the text says the value v of a field, or the placeholder when
\* the field is unset
SlotHolds(doc, i, v) == doc.lines[i][2] = (IF v = -1 THEN Fallback ELSE v)

\* C15: whatever fields are unset, the rendering exists, and each of its
\* slots says the field's value when the field is set and the slot's
\* placeholder (for the date: a date) when it is not.
C15_UnsetFieldsFallBack ==
  rendered_from # << >> =>
    LET f == rendered_from[1]
        d == rd_md[1]
    IN /\ rd_md # << >> /\ Len(d.lines) = 8
       /\ SlotHolds(d, 1, f.name)
       /\ SlotHolds(d, 2, f.fields.process_doc)
       /\ SlotHolds(d, 3, f.fields.input_flows)
       /\ SlotHolds(d, 4, f.fields.output_flows)
       /\ SlotHolds(d, 5, f.fields.param_table)
       /\ SlotHolds(d, 6, CalcId(f.calc))
       /\ d.lines[7][2] \in 1..today

\* C15 witness: a text was rendered from fields of which some are unset and
\* some are set.
C15_Witness ==
  /\ rendered_from # << >>
  /\ rendered_from[1].fields.input_flows = -1
  /\ rendered_from[1].fields.param_table >= 0
  /\ rendered_from[1].calc = << >>

\* C16: a fetch in which a query raises returns normally and leaves the
\* document marked not fetched; the fields whose assignment comes after the
\* failing query are as they were.
C16_FailedFetchKeepsFields ==
  [][ (last_prompt' = "fetch_data" /\ \E x \in {"first", "flows", "later"} :
                                          Printed("fetch error", x)')
      => ( /\ exc' = "" /\ ~rd_fetched'
           /\ Printed("fetch error", "first")'
                => (rd_name' = rd_name /\ rd_fields' = rd_fields)
           /\ Printed("fetch error", "flows")' => rd_fields' = rd_fields
           /\ Printed("fetch error", "later")'
                => rd_fields'.param_table = rd_fields.param_table ) ]_vars

\* C16 witness: a fetch has failed after an earlier one had succeeded, whose
\* parameter table the fields still hold.
C16_Witness ==
  /\ last_prompt = "fetch_data" /\ ~rd_fetched
  /\ \E x \in {"first", "flows", "later"} : Printed("fetch error", x)
  /\ rd_fields.param_table >= 0

\* C17: a step of '4b' whose fetch fails writes no markdown file and leaves
\* the text of rd.md as it was.
C17_FailedFetchNotRendered ==
  [][ ( /\ pc = "main" /\ last_prompt' = "main" /\ last_ans' = "4b"
        /\ \E x \in {"first", "flows", "later"} : Printed("fetch error", x)' )
      => (md_files' = md_files /\ md_text' = md_text /\ rd_md' = rd_md) ]_vars

\* C18: after a successful fetch of scope B (the name the fields carry), each
\* of the flows and documentation fields is unset or holds data of B.
C18_FieldsOfOneScope ==
  (last_prompt = "fetch_data" /\ rd_fetched) =>
    \A f \in {"input_flows", "output_flows", "process_doc"} :
      rd_fields[f] \in {-1, rd_name}

\* C19: when save_markdown has written the file, the text of rd.md and the
\* text of the file are the rendering of the fields as they are, whatever
\* rd.md held before.
C19_SaveRerenders ==
  [][ (last_prompt' = "save_markdown" /\ Printed("print", "Markdown report saved")')
      => ( /\ rd_md' = << create_report_markdown(Cur) >>'
           /\ md_text'[rd_name'] = rd_md' ) ]_vars

\* C19 witness: save_markdown has written the file of a report some of
\* whose fields are set.
C19_Witness ==
  /\ last_prompt = "save_markdown" /\ Printed("print", "Markdown report saved")
  /\ rd_fields.input_flows >= 0
  /\ md_text[rd_name] = rd_md

\* C20: when read_report_markdown reads the file that save_markdown has just
\* written, rd.md has the lines of the rendering of the fields, each line
\* character for character; only the newline at the end may differ.
C20_RoundTrip ==
  [][ ( /\ last_prompt = "save_markdown"
        /\ Printed("print", "Markdown report saved")
        /\ last_prompt' = "read_report_markdown" /\ exc' = "" )
      => LET r == create_report_markdown(Cur)
             m == rd_md'[1]
         IN /\ Len(m.lines) = Len(r.lines)
            /\ \A i \in 1..Len(r.lines) : m.lines[i] = r.lines[i] ]_vars

\* the publication methods of the assembler and the extension each asks for
Converters == {"convert_to_pdf", "convert_to_word", "convert_to_html"}
TargetExt(method) ==
  CASE method = "convert_to_pdf" -> "pdf"
    [] method = "convert_to_word" -> "docx"
    [] method = "convert_to_html" -> "html"

\* C21: a publication method leaves an existing markdown file as it is and
\* writes the rendering when there is none; unless that reading or writing
\* raised, pandoc is then run with the markdown path as input and the path
\* of the same name with the target extension as output, and it is never
\* run before the markdown file exists.
C21_MarkdownBeforeConverter ==
  [][ last_prompt' \in Converters
      => ( /\ rd_name' = rd_name
           /\ rd_name \in md_files => (md_text' = md_text /\ md_files' = md_files)
           /\ (rd_name \notin md_files /\ exc' # "OSError: markdown file")
                => ( /\ md_files' = md_files \cup {rd_name}
                     /\ md_text'[rd_name] = << create_report_markdown(Cur) >> )
           /\ exc' # "OSError: markdown file"
                => pandoc_args' = << << << rd_name, "md" >>,
                                        << rd_name, TargetExt(last_prompt') >> >> >>
           /\ exc' = "OSError: markdown file" => pandoc_args' = << >>
           /\ pandoc_args' # << >> => rd_name \in md_files' ) ]_vars

\* C21 witness: a publication method has run pandoc on a markdown file that
\* was on disk with an edit, and the edit is still in the file.
C21_Witness ==
  /\ last_prompt \in Converters /\ pandoc_args # << >>
  /\ rd_name \in md_files
  /\ Len(md_text[rd_name][1].lines) > Len(create_report_markdown(Cur).lines)

\* the option lines of the publishing menu with its visible options
PublishOffered == VisibleOf(Cur, "publish") \o << "m", "q" >>

CategoryOf(menu) == IF menu = "publish_empty" THEN "publish" ELSE menu

\* C23: a sub-menu displayed by the last step lists exactly the visible
\* options of its type, in the order of the sorted codes, then 'm', then 'q'.
C23_SubMenuListsVisible ==
  \A i \in 1..Len(out) :
    (out[i][1] = "menu" /\ out[i][2] # "main")
      => listed = VisibleOf(Cur, CategoryOf(out[i][2])) \o << "m", "q" >>

\* the menu a step displayed last, "" when it displayed none
LastMenu(o) ==
  LET ms == SelectSeq(o, LAMBDA t : t[1] = "menu")
  IN IF ms = << >> THEN "" ELSE ms[Len(ms)][2]

\* C24: when the line after the display of a menu is not recognized, the
\* interpreter prints 'Invalid option.' and displays that same menu again.
C24_InvalidRedisplaysCurrent ==
  [][ ( /\ pc = "main" /\ LastMenu(out) # ""
        /\ last_prompt' = "main" /\ Printed("print", "Invalid option.")' )
      => (LastMenu(out') = LastMenu(out) /\ listed' = listed) ]_vars

\* the state of the session and of the report that an option's action can
\* change
SessionState ==
  << Fields, show, is_running, is_okay, hidden_state, stack, json_set, calc_set,
     num_ps, connected, rd_name, rd_fetched, rd_fields, rd_md, rd_calc,
     md_files, md_text >>

\* C25: a line that starts with 'h' is answered by a help text and nothing
\* else: no state, visibility or flag changes, no action is invoked, no menu
\* is displayed (the menu context stays), nothing is raised; for h(code)
\* with a code that is not in the option table the text says that the
\* option is not recognized.
C25_HelpChangesNothing ==
  [][ (pc = "main" /\ last_prompt' = "main" /\ StartsWithH(Lower(last_ans')))
      => ( /\ SessionState' = SessionState
           /\ invoked' = "none" /\ exc' = "" /\ pc' = "main"
           /\ DidHelp' /\ LastMenu(out') = "" /\ listed' = << >>
           /\ (HelpMatch(last_ans') # "" /\ HelpMatch(last_ans') \notin Codes)
                => Printed("help", "ERROR: Option not recognized.")' ) ]_vars

\* C25 witness: in a connected session help was asked for a code that is not
\* in the option table, and the interpreter waits at the command prompt.
C25_Witness ==
  /\ last_prompt = "main" /\ last_ans = "h(zz)" /\ pc = "main" /\ connected
  /\ Printed("help", "ERROR: Option not recognized.")

\* params[c]['func'] is a method
Bound(c) == c \in Codes \ {"h"}

\* C26: 'm' and 'q' are always in the option table and bound to an action;
\* the codes of the table never change; make_param_visible with a code of
\* the table and a boolean changes the visibility of that code only, and
\* with any other code or value it raises and changes no option.
C26_OptionTableFixed ==
  /\ [](DOMAIN show = Codes /\ Bound("m") /\ Bound("q"))
  /\ [][ last_prompt' = "make_param_visible"
         => LET p == arg'[1]
                v == arg'[2]
            IN IF p \in Codes /\ v[1] = "bool"
               THEN show' = [show EXCEPT ![p] = v[2]] /\ exc' = ""
               ELSE show' = show /\ exc' \in {"ValueError", "TypeError"} ]_vars

\* C26 witness: make_param_visible has rejected an unknown code after it had
\* made a hidden option visible.
C26_Witness ==
  /\ last_prompt = "make_param_visible" /\ arg[1] = "zz" /\ exc = "ValueError"
  /\ show["3"] /\ show # InitShow

\* the characters a file name keeps as they are
IsKept(c) == c \notin White \cup Special \cup {"_"}

\* the characters of the file name that get_file_name returned, without the
\* extension
Stem == SubSeq(result[1], 1, Len(result[1]) - 1)

\* C27: the file name of a reference name has no blank, no special
\* character, no two underscores in a row and no underscore at its end; it
\* keeps the other characters in their order, with exactly one underscore for
\* every run of blanks, special characters and underscores before a kept
\* character; then comes the extension.  With no reference name the file
\* name is 'report' and the extension.
C27_FileNameSanitized ==
  (last_prompt = "get_file_name" /\ result # << >>) =>
    IF arg[1] = << >> THEN Stem = << "report" >>
    ELSE /\ \A i \in 1..Len(Stem) : Stem[i] \notin White \cup Special
         /\ \A i \in 1..Len(Stem) - 1 : ~(Stem[i] = "_" /\ Stem[i + 1] = "_")
         /\ Stem = << >> \/ Stem[Len(Stem)] # "_"
         /\ SelectSeq(Stem, IsKept) = SelectSeq(arg[1], IsKept)
         /\ \A i \in 1..Len(arg[1]) :
              (IsKept(arg[1][i]) /\ i > 1 /\ ~IsKept(arg[1][i - 1]))
                => LET k == Len(SelectSeq(SubSeq(arg[1], 1, i), IsKept))
                       j == CHOOSE j \in 1..Len(Stem) :
                              /\ IsKept(Stem[j])
                              /\ Len(SelectSeq(SubSeq(Stem, 1, j), IsKept)) = k
                   IN j > 1 /\ Stem[j - 1] = "_"
         /\ \A j \in 1..Len(Stem) :
              Stem[j] = "_" => \E i \in 1..Len(arg[1]) : ~IsKept(arg[1][i])
         /\ result[1][Len(result[1])] \in valid_ext

\* C27 witness: a file name was made of a name in which a blank, a special
\* character and an underscore stand in a row between two letters.
C27_Witness ==
  /\ last_prompt = "get_file_name" /\ result # << >>
  /\ \E i \in 1..Len(arg[1]) - 3 :
       /\ arg[1][i] = "a" /\ arg[1][i + 1] \in White
       /\ arg[1][i + 2] \in Special /\ arg[1][i + 3] \in {"_", "a"}
  /\ Stem # << >>

\* the extension a request stands for when case and a missing dot are
\* disregarded and '.txt' is taken for '.md'; "invalid" for any other
Meaning(e) ==
  CASE e \in {"md", ".md", ".MD", "txt", ".Txt"} -> ".md"
    [] e = "docx" -> ".docx"
    [] e = ".html" -> ".html"
    [] e \in {"pdf", "PDF"} -> ".pdf"
    [] OTHER -> "invalid"

\* C28: get_file_name takes the extension in any case, with or without the
\* dot; a request for '.txt' gives the name a request for '.md' gives; any
\* other extension raises ValueError; the call changes no state of the
\* report or the session.
C28_ExtensionChecked ==
  /\ [](last_prompt = "get_file_name" =>
          IF Meaning(arg[2]) = "invalid"
          THEN exc = "ValueError" /\ result = << >>
          ELSE /\ exc = "" /\ result # << >>
               /\ result[1][Len(result[1])] = Meaning(arg[2])
               /\ result[1] = get_file_name(arg[1], Meaning(arg[2])).name)
  /\ [][last_prompt' = "get_file_name" => SessionState' = SessionState]_vars

\* C28 witness: a file name was asked for with '.Txt' for a report that has
\* a reference name.
C28_Witness ==
  /\ last_prompt = "get_file_name" /\ arg[2] = ".Txt" /\ arg[1] # << >>
  /\ result # << >> /\ result[1][Len(result[1])] = ".md"

\* the factors of the list whose type is the type of a group
FactorsOf(a_factors, group) ==
  { i \in 1..Len(a_factors) :
      \/ group = "Physical" /\ a_factors[i] = "PHYSICAL_ALLOCATION"
      \/ group = "Economic" /\ a_factors[i] = "ECONOMIC_ALLOCATION"
      \/ group = "Causal" /\ a_factors[i] = "CAUSAL_ALLOCATION" }

\* C29: for every list of factors format_allocation returns a text; it
\* starts with the line of the default method, has the table of a group if
\* and only if the group has a factor, and is that line alone when there
\* is no factor.
C29_AllocationText ==
  last_prompt = "format_allocation" =>
    /\ exc = "" /\ result # << >>
    /\ result[1][1][1] = "default"
    /\ \A g \in Groups :
         (\E i \in 1..Len(result[1]) : result[1][i][1] = "table" /\ result[1][i][2] = g)
           <=> FactorsOf(arg[1], g) # {}
    /\ arg[1] = << >> => Len(result[1]) = 1

\* the parts of one kind of the text that format_parameter_table returned
PartsOf(kind) == SelectSeq(result[1], LAMBDA t : t[1] = kind)

\* the place of a parameter in the order of the rows: process scope before
\* global scope, input before formula
RowRank(param) ==
  (IF param[1] = "PROCESS_SCOPE" THEN 0 ELSE 2) + (IF param[2] THEN 0 ELSE 1)

\* C30: the text has exactly one row for every parameter of the list; the
\* rows are ordered process scope before global scope and input before
\* formula within a scope; the parameters with a formula have one equation
\* each, in the order of their rows, and the others none; a divider stands
\* for exactly the scopes that have a row; the header is there only when a
\* row follows.
C30_ParameterRows ==
  last_prompt = "format_parameter_table" =>
    LET param_list == arg[1]
        rows == PartsOf("row")
        eqs == PartsOf("eq")
    IN /\ \A i \in 1..Len(param_list) :
            Cardinality({ j \in 1..Len(rows) : rows[j][3] = i }) = 1
       /\ \A j \in 1..Len(rows), k \in 1..Len(rows) :
            j < k => RowRank(param_list[rows[j][3]]) <= RowRank(param_list[rows[k][3]])
       /\ [j \in 1..Len(eqs) |-> eqs[j][3]]
            = SelectSeq([j \in 1..Len(rows) |-> rows[j][3]],
                        LAMBDA i : ~param_list[i][2])
       /\ Len(PartsOf("divider"))
            = Cardinality({ param_list[rows[j][3]][1] : j \in 1..Len(rows) })
       /\ PartsOf("header") # << >> => rows # << >>

(***************************************************************************)
(* The module functions of the report assembler.  A value that may be None *)
(* is << >> for None and << v >> for the value v.                          *)
(***************************************************************************)
\* the names of the distribution types of the data source
UncertaintyTypes ==
  { "LOG_NORMAL_DISTRIBUTION", "NORMAL_DISTRIBUTION",
    "TRIANGLE_DISTRIBUTION", "UNIFORM_DISTRIBUTION" }

\* str.replace("_", " ") followed by str.title() on the names above
Title(name) ==
  CASE name = "LOG_NORMAL_DISTRIBUTION" -> "Log Normal Distribution"
    [] name = "NORMAL_DISTRIBUTION" -> "Normal Distribution"
    [] name = "TRIANGLE_DISTRIBUTION" -> "Triangle Distribution"
    [] name = "UNIFORM_DISTRIBUTION" -> "Uniform Distribution"
    [] OTHER -> name

\* _fix_uncertainty: u_names
u_names == << "gmean", "gsdev", "max", "ave", "min", "mode", "sdev" >>

\* _fix_uncertainty: u_params before it is filtered, the attributes of the
\* uncertainty in the order of u_names
u_paramsOf(u) ==
  << u.geom_mean, u.geom_sd, u.maximum, u.mean, u.minimum, u.mode, u.sd >>

\* _fix_uncertainty when a value is kept if it is true, so that a zero is
\* dropped with the None's
_fix_uncertaintyTruthy(param) ==
  IF param.uncertainty = << >>
  THEN [ raised |-> "", head |-> "none", pairs |-> << >> ]
  ELSE LET u == param.uncertainty[1]
           u_params == u_paramsOf(u)
           kept == SelectSeq([i \in 1..7 |-> i],
                             LAMBDA i : u_params[i] # << >> /\ u_params[i] # << 0 >>)
       IN IF u.distribution_type = << >>
          THEN [ raised |-> "AttributeError", head |-> "", pairs |-> << >> ]
          ELSE [ raised |-> "",
                 head |-> Title(u.distribution_type[1]),
                 pairs |-> [j \in 1..Len(kept) |->
                              << u_names[kept[j]], u_params[kept[j]][1] >>] ]

\* _fix_uncertainty(param): "none", or the text "head (pairs)" with the
\* pairs joined by ", ", or the exception of .name on a distribution type
\* that is None.  A parameter that is None has no uncertainty.
_fix_uncertainty(param) ==
  IF param.uncertainty = << >>
  THEN [ raised |-> "", head |-> "none", pairs |-> << >> ]
  ELSE LET u == param.uncertainty[1]
           u_params == u_paramsOf(u)
           kept == SelectSeq([i \in 1..7 |-> i], LAMBDA i : u_params[i] # << >>)
       IN IF u.distribution_type = << >>
          THEN [ raised |-> "AttributeError", head |-> "", pairs |-> << >> ]
          ELSE [ raised |-> "",
                 head |-> Title(u.distribution_type[1]),
                 pairs |-> [j \in 1..Len(kept) |->
                              << u_names[kept[j]], u_params[kept[j]][1] >>] ]

\* the values an attribute of an uncertainty has: None, zero, a number
UValues == { << >>, << 0 >>, << 5 >> }

\* the uncertainties of a parameter
Uncertainties ==
  [ distribution_type : { << >> } \cup { << t >> : t \in UncertaintyTypes },
    geom_mean : UValues, geom_sd : UValues, maximum : UValues,
    mean : UValues, minimum : UValues, mode : UValues, sd : UValues ]

\* the parameters _fix_uncertainty is called with
UParams ==
  [ uncertainty : { << >> } \cup { << u >> : u \in Uncertainties } ]

\* _fix_uncertainty(param) with param = arg[1]
FixUncertainty ==
  /\ pc = "not_started"
  /\ LET r == _fix_uncertainty(arg[1])
         S == Call("_fix_uncertainty")
     IN Commit(Back(IF r.raised # "" THEN Raise(S, r.raised)
                    ELSE [S EXCEPT !.result = << [head |-> r.head, pairs |-> r.pairs] >>]))

\* a parameter whose uncertainty is to be written into the parameter table
InitUncertainty ==
  /\ NoSession
  /\ rd_name = -1 /\ rd_fetched = FALSE /\ rd_md = << >> /\ rd_calc = << >>
  /\ md_files = {} /\ md_text = [n \in -1..MaxPS |-> << >>]
  /\ rd_fields = NoFields /\ today = 1 /\ rendered_from = << >>
  /\ arg \in { << p >> : p \in UParams } /\ result = << >>

NextUncertainty == FixUncertainty
SpecUncertainty == InitUncertainty /\ [][NextUncertainty]_vars

\* the attribute of an uncertainty that a key of the text stands for
AttributeOf(u, key) ==
  CASE key = "gmean" -> u.geom_mean [] key = "gsdev" -> u.geom_sd
    [] key = "max" -> u.maximum [] key = "ave" -> u.mean
    [] key = "min" -> u.minimum [] key = "mode" -> u.mode
    [] key = "sdev" -> u.sd

\* the place of a key in the fixed order
KeyRank(key) == CHOOSE i \in 1..7 : u_names[i] = key

\* C31: _fix_uncertainty of a parameter without uncertainty is 'none'; of
\* a parameter with an uncertainty distribution it is the title-cased
\* name of the distribution followed by one 'key:value' pair for exactly
\* the attributes among gmean, gsdev, max, ave, min, mode, sdev that are
\* not None, each with the value of its attribute, in that order.
C31_UncertaintyText ==
  last_prompt = "_fix_uncertainty" =>
    LET param == arg[1]
    IN /\ param.uncertainty = << >> =>
            /\ exc = "" /\ result # << >>
            /\ result[1].head = "none" /\ result[1].pairs = << >>
       /\ (param.uncertainty # << >> /\ param.uncertainty[1].distribution_type # << >>) =>
            LET u == param.uncertainty[1]
                pairs == result[1].pairs
            IN /\ exc = "" /\ result # << >>
               /\ result[1].head = Title(u.distribution_type[1])
               /\ result[1].head # u.distribution_type[1]
               /\ \A j \in 1..Len(pairs) :
                    /\ pairs[j][1] \in { u_names[i] : i \in 1..7 }
                    /\ AttributeOf(u, pairs[j][1]) = << pairs[j][2] >>
               /\ \A j \in 1..Len(pairs), k \in 1..Len(pairs) :
                    j < k => KeyRank(pairs[j][1]) < KeyRank(pairs[k][1])
               /\ \A i \in 1..7 :
                    AttributeOf(u, u_names[i]) # << >>
                      => \E j \in 1..Len(pairs) : pairs[j][1] = u_names[i]

\* C31 witness: a triangle distribution with a maximum, a minimum of zero
\* and a mode was written as three pairs.
C31_Witness ==
  /\ last_prompt = "_fix_uncertainty" /\ result # << >>
  /\ result[1].head = "Triangle Distribution"
  /\ result[1].pairs = << << "max", 5 >>, << "min", 0 >>, << "mode", 5 >> >>

\* the longest field of a source record
MaxField == 2

\* the characters of the fields of a source record: a letter, a carriage
\* return and a line feed; a text is the sequence of its characters
SourceChars == { "a", "CR", "LF" }

RECURSIVE SubCRLF(_, _)
\* re.sub("\\r\\n", repl, txt): every carriage return that is followed by
\* a line feed is replaced, with the line feed, by repl
SubCRLF(repl, txt) ==
  IF txt = << >> THEN << >>
  ELSE IF Len(txt) >= 2 /\ txt[1] = "CR" /\ txt[2] = "LF"
       THEN repl \o SubCRLF(repl, SubSeq(txt, 3, Len(txt)))
       ELSE << txt[1] >> \o SubCRLF(repl, Tail(txt))

\* "%s" of a year
YearStr(y) == CASE y = 0 -> "0" [] y = 2020 -> "2020" [] OTHER -> "2021"

\* NetlOlcaReport.format_source(s_obj): the citation as its characters.
\* A field that is None or empty is false.
format_source(s_obj) ==
  LET part1 == s_obj.name
      part2 == IF s_obj.year # << >> /\ s_obj.year # << 0 >>
               THEN << " (", YearStr(s_obj.year[1]), ")" >> ELSE << >>
      part3 == IF s_obj.text_reference # << >>
               THEN << ". " >> \o s_obj.text_reference
               ELSE IF s_obj.description # << >>
                    THEN << ". " >> \o s_obj.description
                    ELSE << >>
      part4 == IF s_obj.url # << >>
               THEN << ". Online: " >> \o SubCRLF(<< >>, s_obj.url)
               ELSE << >>
  IN SubCRLF(<< " " >>, part1 \o part2 \o part3 \o part4)

\* the texts of at most n characters
SourceTexts(n) == UNION { [1..k -> SourceChars] : k \in 0..n }

\* the source records format_source is called with
Sources ==
  [ name : SourceTexts(MaxField), year : { << >>, << 0 >>, << 2020 >> },
    text_reference : SourceTexts(1), description : SourceTexts(1),
    url : SourceTexts(MaxField) ]

\* rd.format_source(s_obj) with s_obj = arg[1]
FormatSource ==
  /\ pc = "not_started"
  /\ Commit(Back([Call("format_source") EXCEPT
                    !.result = << format_source(arg[1]) >>]))

\* an assembler asked for the citation of a source
InitSource ==
  /\ NoSession
  /\ rd_name = -1 /\ rd_fetched = FALSE /\ rd_md = << >> /\ rd_calc = << >>
  /\ md_files = {} /\ md_text = [n \in -1..MaxPS |-> << >>]
  /\ rd_fields = NoFields /\ today = 1 /\ rendered_from = << >>
  /\ arg \in { << s >> : s \in Sources } /\ result = << >>

NextSource == FormatSource
SpecSource == InitSource /\ [][NextSource]_vars

\* a text without its line breaks and blanks
Plain(txt) == SelectSeq(txt, LAMBDA c : c \notin { "CR", "LF", " " })

\* the pieces of a citation in their order, line breaks aside
CitationOf(s_obj) ==
  Plain(s_obj.name)
  \o (IF s_obj.year \in { << >>, << 0 >> } THEN << >>
      ELSE << " (", YearStr(s_obj.year[1]), ")" >>)
  \o (IF s_obj.text_reference # << >> THEN << ". " >> \o Plain(s_obj.text_reference)
      ELSE IF s_obj.description # << >> THEN << ". " >> \o Plain(s_obj.description)
      ELSE << >>)
  \o (IF s_obj.url # << >> THEN << ". Online: " >> \o Plain(s_obj.url) ELSE << >>)

\* the citation has the pieces of the source in the fixed order
C32_PiecesInOrder ==
  last_prompt = "format_source" => Plain(result[1]) = CitationOf(arg[1])

\* C32: the citation that format_source returns is the name, the year in
\* parentheses if there is one, the text reference or else the
\* description, and the URL after 'Online:' if there is one, in this
\* order; it has no carriage return and no line feed, whatever the fields
\* hold.
C32_CitationOneLine ==
  last_prompt = "format_source" =>
    /\ Plain(result[1]) = CitationOf(arg[1])
    /\ \A i \in 1..Len(result[1]) : result[1][i] \notin { "CR", "LF" }

\* the characters of a parameter name and of a formula
FormulaChars == { "b", "*", "_" }

RECURSIVE EscapeMarkdown(_)
\* re.sub("[*]", "\\*", txt) followed by re.sub("[_]", "\\_", txt): a
\* backslash before every '*' and every '_'
EscapeMarkdown(txt) ==
  IF txt = << >> THEN << >>
  ELSE (IF txt[1] \in { "*", "_" } THEN << "\\", txt[1] >> ELSE << txt[1] >>)
       \o EscapeMarkdown(Tail(txt))

\* sympy.latex(sympy.sympify(txt)) of a text that sympy accepts
Latex(txt) == << "latex(" >> \o txt \o << ")" >>

\* _fix_formula(p_name, f_txt, in_line) without its warning: the text as
\* its characters, or the exception.  nameOk and formOk tell whether sympy
\* accepts the name and the formula.  "$%s%" is not a format that the
\* operator % accepts.
FormulaOf(p_name, f_txt, in_line, nameOk, formOk) ==
  LET has_name == p_name # << >>
      sympyFails == (has_name /\ ~nameOk) \/ ~formOk
      left_side == IF has_name THEN Latex(p_name) ELSE << >>
      right_side == Latex(f_txt)
  IN IF f_txt = << >> THEN [ raised |-> "", text |-> << >> ]
     ELSE IF sympyFails
     THEN [ raised |-> "",
            text |-> EscapeMarkdown(IF has_name THEN p_name \o << " = " >> \o f_txt
                                    ELSE f_txt) ]
     ELSE LET new_txt == IF has_name THEN left_side \o << " = " >> \o right_side
                         ELSE right_side
          IN IF in_line
             THEN [ raised |-> "ValueError: incomplete format", text |-> << >> ]
             ELSE [ raised |-> "", text |-> << "$$\n" >> \o new_txt \o << "\n$$" >> ]

\* _fix_formula(p_name, f_txt, in_line) on the state S
_fix_formula(S, p_name, f_txt, in_line, nameOk, formOk) ==
  LET r == FormulaOf(p_name, f_txt, in_line, nameOk, formOk)
      S1 == IF f_txt # << >> /\ ((p_name # << >> /\ ~nameOk) \/ ~formOk)
            THEN Say(S, "log", "Sympy failed") ELSE S
  IN IF r.raised # "" THEN Raise(S1, r.raised)
     ELSE [S1 EXCEPT !.result = << r.text >>]

\* the names and the formulas _fix_formula is called with
FormulaTexts == UNION { [1..k -> FormulaChars] : k \in 0..MaxField }

\* _fix_formula(p_name, f_txt, in_line) with the arguments arg
FixFormula ==
  /\ pc = "not_started"
  /\ \E nameOk \in BOOLEAN, formOk \in BOOLEAN :
       Commit(Back(_fix_formula(Call("_fix_formula"), arg[1], arg[2], arg[3],
                                nameOk, formOk)))

\* a parameter whose formula is to be written into the report
InitFormula ==
  /\ NoSession
  /\ rd_name = -1 /\ rd_fetched = FALSE /\ rd_md = << >> /\ rd_calc = << >>
  /\ md_files = {} /\ md_text = [n \in -1..MaxPS |-> << >>]
  /\ rd_fields = NoFields /\ today = 1 /\ rendered_from = << >>
  /\ arg \in FormulaTexts \X FormulaTexts \X BOOLEAN /\ result = << >>

NextFormula == FixFormula
SpecFormula == InitFormula /\ [][NextFormula]_vars

\* sympy did not accept the name or the formula of the last call
SympyFailed == \E i \in 1..Len(out) : out[i] = << "log", "Sympy failed" >>

\* the raw text of the last call
RawFormula ==
  IF arg[1] # << >> THEN arg[1] \o << " = " >> \o arg[2] ELSE arg[2]

\* the text is the raw text with a backslash before every '*' and '_' and
\* nothing else changed
IsEscaped(text, raw) ==
  /\ SelectSeq(text, LAMBDA c : c # "\\") = raw
  /\ \A i \in 1..Len(text) :
       /\ text[i] \in { "*", "_" } => i > 1 /\ text[i - 1] = "\\"
       /\ text[i] = "\\" => i < Len(text) /\ text[i + 1] \in { "*", "_" }

\* C33 without the in-line style
C33_BlockFormulaRenders ==
  (last_prompt = "_fix_formula" /\ ~arg[3]) =>
    /\ exc = "" /\ result # << >>
    /\ (arg[2] # << >> /\ SympyFailed) => IsEscaped(result[1], RawFormula)
    /\ (arg[2] # << >> /\ ~SympyFailed) =>
         /\ result[1][1] = "$$\n" /\ result[1][Len(result[1])] = "\n$$"

\* C33: _fix_formula returns a text for every name and formula, in-line
\* style and block style; when sympy fails on the name or on the formula
\* the text is 'name = formula' with a backslash before every '*' and '_'
\* and nothing else changed; when sympy succeeds the text is between math
\* delimiters.
C33_FormulaAlwaysRenders ==
  last_prompt = "_fix_formula" =>
    /\ exc = "" /\ result # << >>
    /\ (arg[2] # << >> /\ SympyFailed) => IsEscaped(result[1], RawFormula)
    /\ (arg[2] # << >> /\ ~SympyFailed) =>
         /\ result[1][1] \in { "$", "$$\n" }
         /\ result[1][Len(result[1])] \in { "$", "\n$$" }

\* do_next with '4b' when the markdown file can be written
DoNextSaveReport ==
  /\ pc = "main"
  /\ \E at \in FetchOutcomes(product_sys_uid), has \in BOOLEAN :
       LET o == [AllOk EXCEPT !.at = at, !.hasIn = has, !.hasOut = has,
                              !.hasDoc = has]
       IN Commit(ToMain(do_next(Begin("main", "4b"), "4b", o, dataFiles, calcFiles)))

\* do_next with '4a'
DoNextPrintReport ==
  /\ pc = "main"
  /\ Commit(ToMain(do_next(Begin("main", "4a"), "4a", AllOk, dataFiles, calcFiles)))

\* a session in which a source is connected through the server, a product
\* system is selected or not, and the report is generated and displayed
NextGenerate ==
  \/ Run
  \/ DoNextOpenServer
  \/ AnswerProductSystem \/ ConfirmProductSystem
  \/ ConfirmNo
  \/ DoNextSaveReport \/ DoNextPrintReport

SpecGenerate == InitReport /\ [][NextGenerate]_vars

\* the last step's fetch_data failed in the query named by where
FetchFailedAt(where) == \E i \in 1..Len(out) : out[i] = << "fetch error", where >>

C35_WorkbooksKeepOkay ==
  (last_prompt = "main" /\ last_ans = "7" /\ calcFiles > 0) =>
    /\ is_okay
    /\ pc = "prompt" /\ stack # << >> /\ Top(Cur) = "calc_file"

\* the last line was read at a value prompt and is blank or a quit keyword
BlankOrQuitAtValuePrompt ==
  /\ last_prompt \in { "working_dir", "project_file", "product_system",
                       "server_port", "process_type", "calc_file",
                       "reviewer", "new_actor" }
  /\ (last_ans = "" \/ IsSpace(last_ans) \/ Lower(last_ans) \in { "q", "quit" })

\* a blank line or a quit keyword at a value prompt ends the loop of that
\* prompt
C36_BlankOrQuitEndsLoop ==
  BlankOrQuitAtValuePrompt =>
    ~(pc \in { "prompt", "confirm" } /\ stack # << >> /\ Top(Cur) = last_prompt)

\* C36: a blank line or a quit keyword at a value prompt ends the loop of
\* that prompt, and no loop goes into its next round without a line having
\* been read in the round before, the product-system loop with its single
\* product system included.
C36_LoopsReadInput ==
  /\ BlankOrQuitAtValuePrompt =>
       ~(pc \in { "prompt", "confirm" } /\ stack # << >> /\ Top(Cur) = last_prompt)
  /\ pc # "spinning"

\* C37: whenever run() has returned, after a quit, after the okay flag
\* became false, or after a call that found the session already quit,
\* is_running is false.
C37_RunningOnlyInLoop == pc = "done" => ~is_running

\* C38: no step of the interpreter leaves the post-connection visibility
\* of '1', '2', '3', '4', '5', '6', '7', 'o' once it is reached, and no
\* step changes the visibility of any other option.
C38_VisibilityOneWay ==
  [][ /\ PostConnection => PostConnection'
      /\ \A c \in Codes \ {"1", "2", "3", "4", "5", "6", "7", "o"} :
           show'[c] = show[c] ]_vars

\* C38 witness: with the options in their post-connection visibility a
\* further connection through the server was tried and failed.
C38_Witness ==
  /\ PostConnection /\ last_prompt = "main" /\ last_ans = "2b"
  /\ Len(Warnings) = 1 /\ pc = "main"

\* the reference name that the text in rd.md was rendered or read for, as
\* its first line says it
NameInText == rd_md[1].lines[1][2]

\* C39: the text that 'display report' prints is the text of the product
\* system that is selected: it names the reference name the report has at
\* that time.
C39_DisplayedTextIsCurrent ==
  (last_prompt = "main" /\ last_ans = "4a" /\ rd_md # << >>) =>
    NameInText = (IF rd_name = -1 THEN Fallback ELSE rd_name)

\* dict.get(key, default) of the process documentation: an entry is << >>
\* when the dictionary has no such key and << v >> when it has
GetEntry(entry, default) == IF entry = << >> THEN default ELSE entry[1]

RECURSIVE Split(_, _)
\* str.split(sep) on a text given as its characters: the pieces between
\* the separators
Split(txt, sep) ==
  IF \A i \in 1..Len(txt) : txt[i] # sep THEN << txt >>
  ELSE LET k == CHOOSE i \in 1..Len(txt) :
                  txt[i] = sep /\ \A j \in 1..(i - 1) : txt[j] # sep
       IN << SubSeq(txt, 1, k - 1) >> \o Split(SubSeq(txt, k + 1, Len(txt)), sep)

\* NetlOlcaReport.format_process_doc(p) with self.location and
\* code = self.process_code: the table as its rows, each << feature, value >>, or
\* one of the two texts that stand for it.  'date_part, _ = ...' needs
\* exactly two pieces.
format_process_doc(p, location, code) ==
  LET is_empty == ~p.other /\ \A k \in DOMAIN p \ {"other"} : p[k] = << >>
      creation == GetEntry(p.creationDate, << "N/A" >>)
      pieces == Split(creation, "T")
  IN IF is_empty THEN [ kind |-> "none", rows |-> << >> ]
     ELSE IF Len(pieces) # 2 THEN [ kind |-> "error", rows |-> << >> ]
     ELSE [ kind |-> "table",
            rows |-> << << "Location", << GetEntry(location, "N/A") >> >>,
                        << "Valid From", << GetEntry(p.validFrom, "N/A") >> >>,
                        << "Valid Until", << GetEntry(p.validUntil, "N/A") >> >>,
                        << "Creation Date", pieces[1] >>,
                        << "Process Type", << GetEntry(p.processType, code) >> >>,
                        << "Process Scope", << GetEntry(p.technologyDescription, "N/A") >> >>,
                        << "System Boundary", << "Cradle-to-Gate" >> >>,
                        << "Completeness", << GetEntry(p.completeness_description, "N/A") >> >> >> ]

\* the process documentation dictionaries of the data source; a creation
\* date is a date and a time with 'T' between them
ProcessDocs ==
  [ validFrom : { << >>, << "2020" >> }, validUntil : { << >>, << "2030" >> },
    creationDate : { << >>, << << "2024-01-31", "T", "12:00" >> >>,
                     << << "2024-01-31" >> >> },
    processType : { << >>, << "UNIT_PROCESS" >> },
    technologyDescription : { << >>, << "scope" >> },
    completeness_description : { << >>, << "complete" >> },
    other : BOOLEAN ]

\* rd.format_process_doc(p) with p = arg[1] and rd.location = arg[2]
FormatProcessDoc ==
  /\ pc = "not_started"
  /\ Commit(Back([Call("format_process_doc") EXCEPT
                    !.result = << format_process_doc(arg[1], arg[2], process_code) >>]))

\* an assembler asked for the documentation table of a process
InitProcessDoc ==
  /\ NoSession
  /\ rd_name = -1 /\ rd_fetched = FALSE /\ rd_md = << >> /\ rd_calc = << >>
  /\ md_files = {} /\ md_text = [n \in -1..MaxPS |-> << >>]
  /\ rd_fields = NoFields /\ today = 1 /\ rendered_from = << >>
  /\ arg \in ProcessDocs \X { << >>, << "US" >> } /\ result = << >>

NextProcessDoc == FormatProcessDoc
SpecProcessDoc == InitProcessDoc /\ [][NextProcessDoc]_vars

\* the value of a feature in the table that was returned
ValueOf(feature) ==
  LET i == CHOOSE i \in 1..Len(result[1].rows) : result[1].rows[i][1] = feature
  IN result[1].rows[i][2]

\* the documentation that was handed over has an entry
HasEntries ==
  arg[1].other \/ \E k \in DOMAIN arg[1] \ {"other"} : arg[1][k] # << >>

\* a record with a creation date of date and time renders as the table,
\* with 'N/A' for the entries it lacks
C40_TableWithCreationDate ==
  (last_prompt = "format_process_doc" /\ HasEntries
     /\ arg[1].creationDate = << << "2024-01-31", "T", "12:00" >> >>) =>
    /\ result[1].kind = "table"
    /\ arg[1].validFrom = << >> => ValueOf("Valid From") = << "N/A" >>
    /\ arg[1].technologyDescription = << >> => ValueOf("Process Scope") = << "N/A" >>

\* C40: a process documentation that lacks any one entry, the creation date
\* included, renders as the table, with 'N/A' for the missing entry and
\* not as an error text.
C40_MissingEntryRendersTable ==
  (last_prompt = "format_process_doc" /\ HasEntries) =>
    /\ result[1].kind = "table"
    /\ arg[1].validFrom = << >> => ValueOf("Valid From") = << "N/A" >>
    /\ arg[1].validUntil = << >> => ValueOf("Valid Until") = << "N/A" >>
    /\ arg[1].creationDate = << >> => ValueOf("Creation Date") = << "N/A" >>
    /\ arg[1].technologyDescription = << >> => ValueOf("Process Scope") = << "N/A" >>
    /\ arg[1].completeness_description = << >> => ValueOf("Completeness") = << "N/A" >>

====
